---- MODULE Spec2Model ----
(***************************************************************************)
(* Job-Queue-Dashboard: the lease / ack / retry / dead-letter state        *)
(* machine of backend/worker.js over the file-backed store of              *)
(* backend/store.js, with the submission route of backend/main.js.         *)
(*                                                                         *)
(* Time is counted in seconds (now) and milliseconds within the second     *)
(* (msec).  The worker is one Node.js process: a                           *)
(* macrotask (poll timer, sleep timer, start-up) runs to completion and    *)
(* the promise reactions it queued are then run in FIFO order (mq) before  *)
(* the next macrotask.  The API server is another process working on the   *)
(* same jobs.json: its createJob (load, push, save) may fall anywhere      *)
(* between, or around, the store calls of the worker.  The worker process  *)
(* may be killed between two of its writes.                                *)
(***************************************************************************)
EXTENDS Integers, Sequences, FiniteSets, TLC

\* ---- bounds of the model ------------------------------------------------
MaxJobs == 2
MaxTime == 4
MaxCrashes == 1
MaxMinutes == 2

\* ---- configuration (backend/config.js) and program constants ------------
\* config.js reads the first three from the environment; the worker is run
\* here with WORKER_CONCURRENCY=2 MAX_RETRIES=2 LEASE_TIMEOUT_SEC=1 (the
\* defaults are 5, 3 and 300).  A lease of one second is shorter than the
\* two seconds of work of a two-character text, as a lease of ten seconds is
\* shorter than the work of a twenty-character text.  WORKER_POLL_MS is not
\* modelled: the poll timer may fire at any moment.
WORKER_CONCURRENCY == 2
MAX_RETRIES == 2
LEASE_TIMEOUT_SEC == 1
MAX_TEXT_LENGTH == 30
\* config.js reads RATE_LIMIT_PER_MINUTE (default 10); the API is run here
\* with RATE_LIMIT_PER_MINUTE=2.
MAX_NEW_JOBS_PER_MINUTE == 2
\* store.js
RATE_LIMIT_WINDOW_SEC == 60

\* JavaScript null, for the timestamp and text fields
NULL == 0 - 1
NullStr == "null"
\* null in a field that otherwise holds JSON text (payload, result)
NullJson == <<"null">>

\* The ids uuidv4() hands out: MaxJobs of them, and one more (0) in the
\* specification that submits one job more than the worker has slots.
JobIds == 0..MaxJobs

VARIABLES
    jobs,       \* data.jobs of jobs.json: the array of job records
    dlq,        \* data.dlq of jobs.json: the array of dead-letter records
    metrics,    \* metrics.json
    now,        \* the wall clock, in seconds
    msec,       \* the wall clock: the milliseconds within the second
    ratelimit,  \* ratelimit.json: for each tenant the seconds of its submissions
    resp,       \* the last response the API sent, with its request
    workerUp,   \* the worker process is running
    inFlight,   \* worker.js: let inFlight
    execs,      \* executions of runOneJob suspended in sleep(): [job, wake, ...]
    mq,         \* the worker's queue of promise reactions (microtasks)
    crashes,    \* how many times the worker process has been killed
    api,        \* the API process inside createJob: what load() returned
    posted,     \* how many ids uuidv4() has handed out
    hist        \* history: runs[id] counts the calls runOneJob(job) with
                \* job.id = id; held is the set of ids that leaseOne returned
                \* and neither retry nor releaseStaleJob has written since;
                \* twice: leaseOne once returned an id that was in held;
                \* made: the records createJob has saved, in order, each
                \* with its id, its tenant and the time of the save

vars ==
    <<jobs, dlq, metrics, now, msec, ratelimit, resp, workerUp, inFlight, execs,
      mq, crashes, api, posted, hist>>

\* ---- payloads -------------------------------------------------------------
\* A payload object after sanitizePayload.  text is a record describing the
\* string String(payload.text): its length, whether it is blank after trim
\* and whether it contains "reject"; an absent key reads as the empty string.
Txt(n) == [len |-> n, blank |-> (n = 0), reject |-> FALSE]

PayloadInputs ==
    { [text |-> Txt(1), fail |-> FALSE, invalid |-> FALSE],
      [text |-> Txt(2), fail |-> FALSE, invalid |-> FALSE],
      [text |-> Txt(1), fail |-> TRUE, invalid |-> FALSE] }

\* JSON.stringify of a payload object and JSON.parse of a stored string: a
\* stored string is either the encoding of an object or not JSON at all.
JSON_stringify(p) == <<"json", p>>

JSON_parses(s) == s[1] = "json"

JSON_parse(s) == s[2]

\* The history counts up to MaxRuns executions of a job.
MaxRuns == MAX_RETRIES + 2

\* ---- the world a handler runs in ------------------------------------------
\* A handler of the worker is a function of the world record w: the data
\* files, the worker's own state, the API process, and
\*   inj    where the API's load and save fall among the handler's calls of
\*          the store (before its loadAt-th and saveAt-th call; 0: not during
\*          this handler; swallow: the save falls between the load and the
\*          save of the worker's saveAt-th call, which overwrites it),
\*          failFrom, failKind: from its failFrom-th call of the store on
\*          (0: never) jobs.json cannot be read ("read") or cannot be
\*          written ("write"),
\*   calls  how many calls of the store the handler has made so far,
\*   met    inFlight when the handler first met a failure of jobs.json,
\*   threw  the handler has thrown an error that nothing catches,
\*   log    what is outside the worker process after each write so far (what
\*          another process, or a restart after a kill, finds).
Idle == [pc |-> "idle", snap |-> [jobs |-> <<>>, dlq |-> <<>>], job |-> <<>>]

NoInj ==
    [loadAt |-> 0, saveAt |-> 0, swallow |-> FALSE,
     payload |-> <<>>, tenant |-> NullStr, failFrom |-> 0, failKind |-> "none"]

W(inj) ==
    [jobs |-> jobs, dlq |-> dlq, metrics |-> metrics, ratelimit |-> ratelimit,
     resp |-> resp, inFlight |-> inFlight,
     execs |-> execs, mq |-> mq, api |-> api, posted |-> posted, hist |-> hist,
     inj |-> inj, calls |-> 0, met |-> NULL, threw |-> FALSE, log |-> <<>>]

W0 == W(NoInj)

Outside(w) ==
    [jobs |-> w.jobs, dlq |-> w.dlq, metrics |-> w.metrics,
     ratelimit |-> w.ratelimit, resp |-> w.resp, api |-> w.api,
     posted |-> w.posted, hist |-> w.hist]

\* F(v), with v evaluated once and then named: JavaScript's const x = v; ...
Then(v, F(_)) == CHOOSE r \in {F(x) : x \in {v}} : TRUE

Logged(w) == Then(w, LAMBDA x : [x EXCEPT !.log = Append(@, Outside(x))])

\* ---- backend/store.js -----------------------------------------------------
NoJob == [id |-> NULL, status |-> "none"]

\* The ids of the store are those uuidv4() made: 36 printable characters,
\* which sanitizeJobId (slice to 256, strip control characters) returns as
\* they are.
sanitizeJobId(id) == id

\* fs.writeFileSync(DATA_FILE, ...) and the same for metrics.json
writeFile(w, data) == Logged([w EXCEPT !.jobs = data.jobs, !.dlq = data.dlq])

saveMetrics(w, m) == Logged([w EXCEPT !.metrics = m])

incrementJobSubmitted(w) ==
    Then(w, LAMBDA x : saveMetrics(x, [x.metrics EXCEPT !.jobs_submitted = @ + 1]))

incrementJobDone(w) ==
    Then(w, LAMBDA x : saveMetrics(x, [x.metrics EXCEPT !.jobs_done = @ + 1]))

incrementJobFailed(w) ==
    Then(w, LAMBDA x : saveMetrics(x, [x.metrics EXCEPT !.jobs_failed = @ + 1]))

incrementRetries(w) ==
    Then(w, LAMBDA x : saveMetrics(x, [x.metrics EXCEPT !.retries = @ + 1]))

\* -- the rate limit (store.js), persisted in ratelimit.json -----------------
\* The tenants that have a list in ratelimit.json or may get one; a tenant
\* without a list reads as the empty list (data[tenantId] || []).
Tenants == {"default", "acme"}

\* Date.now(), in milliseconds, and Math.floor(Date.now() / 1000)
Date_now == 1000 * now + msec

nowSeconds == Date_now \div 1000

\* list.filter((t) => now - t < RATE_LIMIT_WINDOW_SEC)
Recent(list) == SelectSeq(list, LAMBDA t : nowSeconds - t < RATE_LIMIT_WINDOW_SEC)

canSubmitJob(w, tenantId, maxPerMinute) ==
    Len(Recent(w.ratelimit[tenantId])) < maxPerMinute

addRateLimitTimestamp(w, tenantId) ==
    Logged([w EXCEPT !.ratelimit[tenantId] = Append(Recent(@), nowSeconds)])

\* -- the API process: the routes of backend/main.js -------------------------
TenantInputs == {"default"}

\* The X-Tenant-Id header: the string s, and whether all of it is made of
\* word characters, dots and dashes.  An absent header reads as the empty
\* string.  No header of the model is longer than the 128 characters kept.
NoHeader == [s |-> "", word |-> TRUE]

TenantHeaders ==
    {NoHeader, [s |-> "acme", word |-> TRUE], [s |-> "acme corp", word |-> FALSE]}

getTenant(h) == IF h.s = "" \/ ~h.word THEN "default" ELSE h.s

\* The Idempotency-Key header; NullStr when absent.  String(rawKey).slice(0,
\* 256) || null: no key of the model is longer than 256 characters.
KeyHeaders == {NullStr, "", "k1"}

idempotencyKeyOf(rawKey) == IF rawKey = NullStr \/ rawKey = "" THEN NullStr ELSE rawKey

\* checkRate(tenantId) returns (TRUE) or throws the 429 error (FALSE).
checkRate(w, tenantId) == canSubmitJob(w, tenantId, MAX_NEW_JOBS_PER_MINUTE)

\* A store that finds no job by its key.
findJobByIdempotencyKey_none(w, key) == NoJob

\* data.jobs.find((j) => j.idempotency_key === key) || null
findJobByIdempotencyKey(w, key) ==
    IF key # NullStr /\ \E i \in 1..Len(w.jobs) : w.jobs[i].idempotency_key = key
    THEN w.jobs[CHOOSE i \in 1..Len(w.jobs) :
                    /\ w.jobs[i].idempotency_key = key
                    /\ \A k \in 1..(i - 1) : w.jobs[k].idempotency_key # key]
    ELSE NoJob

\* The record as the API returns it: the payload parsed, no idempotency key.
rowToJob(row) ==
    [id |-> row.id,
     status |-> row.status,
     payload |-> IF row.payload # NullJson /\ JSON_parses(row.payload)
                 THEN <<"object", JSON_parse(row.payload)>>
                 ELSE NullJson,
     retries |-> row.retries,
     max_retries |-> row.max_retries,
     tenant_id |-> row.tenant_id,
     created_at |-> row.created_at,
     updated_at |-> row.updated_at,
     leased_at |-> row.leased_at,
     completed_at |-> row.completed_at,
     result |-> row.result,
     error_message |-> row.error_message]

\* A request, and the response res.status(status).json(body) to it.
Request(route, id, key) == [route |-> route, id |-> id, key |-> key]

NoResp ==
    [req |-> Request("none", NULL, NullStr), status |-> 0, body |-> [error |-> NullStr]]

Responded(w, req, status, body) ==
    Logged([w EXCEPT !.resp = [req |-> req, status |-> status, body |-> body]])

\* uuidv4(): an id no record has.  The code only tests ids for equality, so
\* one fresh id per submission is enough; they are handed out in descending
\* order, so that the order of ids is not the order of arrival.
uuidv4(n) == MaxJobs - n

\* A route that stores the new record as already tried once.
newJob_tried(id, payload, tenantId, idempotencyKey) ==
    [id |-> id,
     status |-> "pending",
     payload |-> JSON_stringify(payload),
     retries |-> 1,
     max_retries |-> MAX_RETRIES,
     idempotency_key |-> idempotencyKey,
     tenant_id |-> tenantId,
     created_at |-> now,
     updated_at |-> now,
     leased_at |-> NULL,
     completed_at |-> NULL,
     result |-> NullJson,
     error_message |-> "tried"]

\* The record POST /jobs builds.
newJob(id, payload, tenantId, idempotencyKey) ==
    [id |-> id,
     status |-> "pending",
     payload |-> JSON_stringify(payload),
     retries |-> 0,
     max_retries |-> MAX_RETRIES,
     idempotency_key |-> idempotencyKey,
     tenant_id |-> tenantId,
     created_at |-> now,
     updated_at |-> now,
     leased_at |-> NULL,
     completed_at |-> NULL,
     result |-> NullJson,
     error_message |-> NullStr]

\* A route whose replay of a stored key counts as a submission.
apiLoad_counted(w, payload, tenantId, idempotencyKey) ==
    IF ~checkRate(w, tenantId)
    THEN Responded(w, Request("POST /jobs", NULL, idempotencyKey), 429,
                   [error |-> "Max new jobs per minute per tenant"])
    ELSE Then(findJobByIdempotencyKey(w, idempotencyKey), LAMBDA existing :
             IF existing.id # NULL
             THEN Responded(incrementJobSubmitted(addRateLimitTimestamp(w, tenantId)),
                            Request("POST /jobs", NULL, idempotencyKey), 200,
                            rowToJob(existing))
             ELSE [w EXCEPT
                      !.api = [pc |-> "loaded",
                               snap |-> [jobs |-> w.jobs, dlq |-> w.dlq],
                               job |-> newJob(uuidv4(w.posted), payload, tenantId,
                                              idempotencyKey)],
                      !.posted = @ + 1])

\* POST /jobs up to the load() of createJob: the rate check and the look-up
\* of the idempotency key, each of which may end the request.
apiLoad(w, payload, tenantId, idempotencyKey) ==
    IF ~checkRate(w, tenantId)
    THEN Responded(w, Request("POST /jobs", NULL, idempotencyKey), 429,
                   [error |-> "Max new jobs per minute per tenant"])
    ELSE Then(findJobByIdempotencyKey(w, idempotencyKey), LAMBDA existing :
             IF existing.id # NULL
             THEN Responded(w, Request("POST /jobs", NULL, idempotencyKey), 200,
                            rowToJob(existing))
             ELSE [w EXCEPT
                      !.api = [pc |-> "loaded",
                               snap |-> [jobs |-> w.jobs, dlq |-> w.dlq],
                               job |-> newJob(uuidv4(w.posted), payload, tenantId,
                                              idempotencyKey)],
                      !.posted = @ + 1])

\* The history: createJob has saved the record.
Made(w, job) ==
    [w EXCEPT !.hist.made =
        Append(@, [id |-> job.id, tenant |-> job.tenant_id, sec |-> now,
                   msec |-> msec])]

\* What follows the save of createJob in POST /jobs.
apiAfterSave(w, job) ==
    Responded(incrementJobSubmitted(addRateLimitTimestamp(w, job.tenant_id)),
              Request("POST /jobs", NULL, job.idempotency_key), 201, rowToJob(job))

\* The rest of createJob (push, save) and of POST /jobs.
apiSave(w) ==
    apiAfterSave(
        writeFile(Made([w EXCEPT !.api = Idle], w.api.job),
                  [jobs |-> Append(w.api.snap.jobs, w.api.job),
                   dlq |-> w.api.snap.dlq]),
        w.api.job)

\* The same when a save of the worker, which had loaded before, follows it.
apiSaveOverwritten(w) == apiAfterSave(Made([w EXCEPT !.api = Idle], w.api.job), w.api.job)

CanLoad(w) == w.api.pc = "idle" /\ w.posted < MaxJobs

CanSave(w) == w.api.pc = "loaded"

\* -- the worker process calls the store -------------------------------------
\* What the API process does just before the load() of the call.
ApiLoadsBefore(w) ==
    IF w.inj.loadAt = w.calls /\ CanLoad(w)
    THEN apiLoad(w, w.inj.payload, w.inj.tenant, NullStr)
    ELSE w

ApiSavesBefore(w) ==
    IF w.inj.saveAt = w.calls /\ ~w.inj.swallow /\ CanSave(w) THEN apiSave(w) ELSE w

\* fs.readFileSync or JSON.parse throws in this call, fs.writeFileSync throws
\* in this call.
Unreadable(w) ==
    w.inj.failFrom # 0 /\ w.calls >= w.inj.failFrom /\ w.inj.failKind = "read"

Unwritable(w) ==
    w.inj.failFrom # 0 /\ w.calls >= w.inj.failFrom /\ w.inj.failKind = "write"

\* The call has met a failure of jobs.json.
Met(w) == IF w.met = NULL THEN [w EXCEPT !.met = w.inFlight] ELSE w

\* load(): the world when the call has read the file, or has failed to.
load(w) ==
    Then([w EXCEPT !.calls = @ + 1],
         LAMBDA x : Then(Then(ApiLoadsBefore(x), ApiSavesBefore),
                         LAMBDA y : IF Unreadable(y) THEN Met(y) ELSE y))

\* What load() returned: the file, or the empty data of its catch block.
Data(d) ==
    IF Unreadable(d)
    THEN [jobs |-> <<>>, dlq |-> <<>>]
    ELSE [jobs |-> d.jobs, dlq |-> d.dlq]

\* What the API process does between the load() and the save() of the call.
ApiSavesBetween(w) ==
    IF w.inj.saveAt = w.calls /\ w.inj.swallow /\ CanSave(w)
    THEN apiSaveOverwritten(w)
    ELSE w

\* save(data), d being the world since the load() of the call; a write that
\* fails is caught and logged.
save(d, data) ==
    IF Unwritable(d)
    THEN Met(ApiSavesBetween(d))
    ELSE writeFile(ApiSavesBetween(d), data)

\* data.jobs.findIndex((j) => j.id === sid); 0 stands for -1
findIndex(js, id) ==
    IF \E i \in 1..Len(js) : js[i].id = id
    THEN CHOOSE i \in 1..Len(js) :
             js[i].id = id /\ \A k \in 1..(i - 1) : js[k].id # id
    ELSE 0

\* The reading functions return the world after the call and the value read.
getJob(w, id) ==
    Then(load(w), LAMBDA d :
        [w |-> d,
         val |-> IF findIndex(Data(d).jobs, sanitizeJobId(id)) = 0
                 THEN NoJob
                 ELSE Data(d).jobs[findIndex(Data(d).jobs, sanitizeJobId(id))]])

\* { ...data.jobs[i], ...updates }
Merge(rec, updates) ==
    [f \in (DOMAIN rec) \cup (DOMAIN updates) |->
        IF f \in DOMAIN updates THEN updates[f] ELSE rec[f]]

updateJob(w, id, updates) ==
    Then(load(w), LAMBDA d :
        IF findIndex(Data(d).jobs, sanitizeJobId(id)) = 0
        THEN d
        ELSE save(d, [jobs |-> [Data(d).jobs EXCEPT
                                   ![findIndex(Data(d).jobs, sanitizeJobId(id))] =
                                       Merge(@, updates)],
                      dlq |-> Data(d).dlq]))

addToDlq(w, item) ==
    Then(load(w), LAMBDA d :
        save(d, [jobs |-> Data(d).jobs, dlq |-> Append(Data(d).dlq, item)]))

\* A sort that is not stable: among equal created_at the last one comes first.
Oldest_unstable(pending) ==
    IF Len(pending) = 0
    THEN [id |-> NULL, status |-> "none"]
    ELSE pending[CHOOSE i \in 1..Len(pending) :
             /\ \A k \in 1..Len(pending) :
                    pending[i].created_at <= pending[k].created_at
             /\ \A k \in (i + 1)..Len(pending) :
                    pending[k].created_at # pending[i].created_at]

\* pending.sort((a, b) => new Date(a.created_at) - new Date(b.created_at))[0]:
\* the sort is stable, so among equal created_at the array order decides.
Oldest(pending) ==
    IF Len(pending) = 0
    THEN NoJob
    ELSE pending[CHOOSE i \in 1..Len(pending) :
             /\ \A k \in 1..Len(pending) :
                    pending[i].created_at <= pending[k].created_at
             /\ \A k \in 1..(i - 1) :
                    pending[k].created_at # pending[i].created_at]

\* A store whose next pending job may also be one that is running.
getNextPendingJob_running(w) ==
    Then(load(w), LAMBDA d :
        [w |-> d,
         val |-> Then(SelectSeq(Data(d).jobs,
                                LAMBDA j : j.status \in {"pending", "running"}),
                      Oldest)])

getNextPendingJob(w) ==
    Then(load(w), LAMBDA d :
        [w |-> d,
         val |-> Then(SelectSeq(Data(d).jobs, LAMBDA j : j.status = "pending"),
                      Oldest)])

getStaleRunningJobs(w, maxAge) ==
    Then(load(w), LAMBDA d :
        [w |-> d,
         val |-> SelectSeq(Data(d).jobs, LAMBDA j :
                     /\ j.status = "running"
                     /\ j.leased_at # NULL
                     /\ now - j.leased_at > maxAge)])

\* The history: the record is pending again.
Released(w, id) == [w EXCEPT !.hist.held = @ \ {id}]

\* A store that re-queues a stale record and leaves its leased_at.
releaseStaleJob_leased(w, id) ==
    updateJob(Released(w, id), id, [status |-> "pending", updated_at |-> now])

\* A store whose release of a stale record counts as an attempt.
releaseStaleJob_counted(w, id) ==
    Then(getJob(w, id), LAMBDA job :
        updateJob(Released(job.w, id), id,
            [status |-> "pending", leased_at |-> NULL, updated_at |-> now,
             retries |-> job.val.retries + 1]))

releaseStaleJob(w, id) ==
    updateJob(Released(w, id), id,
        [status |-> "pending", leased_at |-> NULL, updated_at |-> now])

\* ---- backend/worker.js ----------------------------------------------------
Min(a, b) == IF a < b THEN a ELSE b

Max(a, b) == IF a > b THEN a ELSE b

\* ---- backend/config.js: WORKER_CONCURRENCY --------------------------------
\* What process.env.WORKER_CONCURRENCY can be: unset, or a string, given here
\* by what parseInt reads in it: the empty string, a string that does not
\* start with an integer ("abc"), or one that starts with the integer n
\* ("7", "7.5", "7 workers", "-2").
EnvInts == (0 - 3)..8

EnvInputs ==
    {<<"unset">>, <<"empty">>, <<"text">>} \cup {<<"int", n>> : n \in EnvInts}

\* process.env.X || '<dflt>': undefined and '' are falsy
OrDefault(env, dflt) ==
    IF env \in {<<"unset">>, <<"empty">>} THEN <<"int", dflt>> ELSE env

\* parseInt(s, 10): NaN, or the leading integer
parseInt(s) ==
    IF s[1] = "int" THEN [nan |-> FALSE, val |-> s[2]] ELSE [nan |-> TRUE, val |-> 0]

\* x || d for a number x: NaN and 0 are falsy
OrNumber(x, d) == IF x.nan \/ x.val = 0 THEN d ELSE x.val

workerConcurrency(env) ==
    Min(Max(OrNumber(parseInt(OrDefault(env, 5)), 5), 1), 5)

\* The synchronous part of processJob: the error it throws, or the number of
\* seconds it is going to sleep.
processJob(payload) ==
    IF payload.invalid
    THEN [ok |-> FALSE, err |-> "Invalid payload format (invalid=true)"]
    ELSE IF payload.fail
    THEN [ok |-> FALSE, err |-> "Simulated failure for testing"]
    ELSE IF payload.text.len = 0 \/ payload.text.blank
    THEN [ok |-> FALSE, err |-> "Payload must include non-empty text"]
    ELSE IF payload.text.len > MAX_TEXT_LENGTH
    THEN [ok |-> FALSE, err |-> "Text length exceeds maximum"]
    ELSE IF payload.text.reject
    THEN [ok |-> FALSE, err |-> "Job rejected: forbidden content"]
    ELSE [ok |-> TRUE,
          seconds |-> Min(Max(payload.text.len, 1), MAX_TEXT_LENGTH),
          textLength |-> payload.text.len]

\* What processJob returns once its sleep is over.
processJobResult(e) ==
    [processed |-> TRUE, at |-> now, durationSeconds |-> e.seconds,
     textLength |-> e.textLength]

RECURSIVE releaseEach(_, _)
releaseEach(w, stale) ==
    IF stale = <<>>
    THEN w
    ELSE Then(releaseStaleJob(w, Head(stale).id),
              LAMBDA x : releaseEach(x, Tail(stale)))

\* A worker that reads the stale records and releases none.
releaseStaleLeases_none(w) ==
    Then(getStaleRunningJobs(w, LEASE_TIMEOUT_SEC), LAMBDA stale : stale.w)

releaseStaleLeases(w) ==
    Then(getStaleRunningJobs(w, LEASE_TIMEOUT_SEC),
         LAMBDA stale : releaseEach(stale.w, stale.val))

\* The history: leaseOne returns the record.
Leased(w, id) ==
    [w EXCEPT !.hist.held = @ \cup {id}, !.hist.twice = @ \/ id \in w.hist.held]

\* A worker that returns the record it re-read whatever its status.
leaseOne_unchecked(w) ==
    Then(getNextPendingJob(w), LAMBDA job :
        IF job.val.id = NULL
        THEN [w |-> job.w, job |-> NoJob]
        ELSE Then(getJob(updateJob(job.w, job.val.id,
                             [status |-> "running", updated_at |-> now,
                              leased_at |-> now]),
                         job.val.id),
                  LAMBDA updated :
                      IF updated.val.id = NULL
                      THEN [w |-> [updated.w EXCEPT !.threw = TRUE], job |-> NoJob]
                      ELSE [w |-> Leased(updated.w, updated.val.id),
                            job |-> updated.val]))

\* Returns the world after the call and the job leased (NoJob for null).
\* When store.getJob returns null, reading updated.status throws a TypeError
\* that neither leaseOne nor tryLeaseAndStart catches.
leaseOne(w) ==
    Then(getNextPendingJob(w), LAMBDA job :
        IF job.val.id = NULL
        THEN [w |-> job.w, job |-> NoJob]
        ELSE Then(getJob(updateJob(job.w, job.val.id,
                             [status |-> "running", updated_at |-> now,
                              leased_at |-> now]),
                         job.val.id),
                  LAMBDA updated :
                      IF updated.val.id = NULL
                      THEN [w |-> [updated.w EXCEPT !.threw = TRUE], job |-> NoJob]
                      ELSE IF updated.val.status # "running"
                      THEN [w |-> updated.w, job |-> NoJob]
                      ELSE [w |-> Leased(updated.w, updated.val.id),
                            job |-> updated.val]))

\* A worker whose ack stores no result.
ack_noResult(w, jobId, result) ==
    incrementJobDone(
        updateJob(w, jobId,
            [status |-> "done", updated_at |-> now, completed_at |-> now]))

ack(w, jobId, result) ==
    incrementJobDone(
        updateJob(w, jobId,
            [status |-> "done", updated_at |-> now, completed_at |-> now,
             result |-> JSON_stringify(result)]))

\* A worker whose retry puts the job at the back of the queue.
retry_requeued(w, jobId, errorMessage) ==
    Then(getJob(w, jobId), LAMBDA job :
        IF job.val.id = NULL
        THEN job.w
        ELSE incrementRetries(
                 updateJob(Released(job.w, jobId), jobId,
                     [status |-> "pending", updated_at |-> now,
                      leased_at |-> NULL, error_message |-> errorMessage,
                      retries |-> job.val.retries + 1, created_at |-> now])))

\* For an id the file does not have, store.getJob returns null and reading
\* job.retries throws: the catch block ends there.
retry(w, jobId, errorMessage) ==
    Then(getJob(w, jobId), LAMBDA job :
        IF job.val.id = NULL
        THEN job.w
        ELSE incrementRetries(
                 updateJob(Released(job.w, jobId), jobId,
                     [status |-> "pending", updated_at |-> now,
                      leased_at |-> NULL, error_message |-> errorMessage,
                      retries |-> job.val.retries + 1])))

\* A worker that marks the job failed and adds no dead-letter record.
sendToDlq_unlisted(w, job, lastError, finalRetries) ==
    incrementJobFailed(
        updateJob(w, job.id,
            [status |-> "failed", updated_at |-> now, completed_at |-> now,
             error_message |-> lastError]))

sendToDlq(w, job, lastError, finalRetries) ==
    incrementJobFailed(
        updateJob(
            addToDlq(w, [id |-> <<"dlq", job.id, now>>,
                         job_id |-> job.id,
                         payload |-> job.payload,
                         retries |-> finalRetries,
                         last_error |-> lastError,
                         failed_at |-> now,
                         tenant_id |-> job.tenant_id]),
            job.id,
            [status |-> "failed", updated_at |-> now, completed_at |-> now,
             error_message |-> lastError]))

\* The promise reactions the worker queues.
OnCatch(job, err) == [type |-> "catch", job |-> job, err |-> err]

OnFinally == [type |-> "finally", job |-> NoJob, err |-> NullStr]

\* The promise of runOneJob settles: its .finally reaction is queued.
Settled(w) == [w EXCEPT !.mq = Append(@, OnFinally)]

\* The history: one more execution of the job.
Started(w, id) == [w EXCEPT !.hist.runs[id] = Min(@ + 1, MaxRuns)]

\* Two executions that were handed the same record in the same second are
\* two executions: copy tells them apart.
Copy(sleeping, job, wake) ==
    CHOOSE c \in 0..Cardinality(sleeping) :
        /\ \A x \in sleeping : ~(x.job = job /\ x.wake = wake /\ x.copy = c)
        /\ \A k \in 0..(c - 1) :
               \E x \in sleeping : x.job = job /\ x.wake = wake /\ x.copy = k

\* runOneJob up to its await: an unparsable payload is dead-lettered at once
\* and the promise is already settled; otherwise processJob either throws
\* (the catch block runs as a reaction) or goes to sleep.
runOneJob(w, job) ==
    IF job.payload # NullJson /\ ~JSON_parses(job.payload)
    THEN Settled(sendToDlq(Started(w, job.id), job, "Invalid job payload JSON",
                           job.retries + 1))
    ELSE Then(processJob(IF job.payload = NullJson
                         THEN [text |-> Txt(0), fail |-> FALSE, invalid |-> FALSE]
                         ELSE JSON_parse(job.payload)),
              LAMBDA r :
                  IF r.ok
                  THEN [Started(w, job.id) EXCEPT !.execs = @ \cup
                           {[job |-> job, wake |-> now + r.seconds,
                             seconds |-> r.seconds, textLength |-> r.textLength,
                             copy |-> Copy(w.execs, job, now + r.seconds)]}]
                  ELSE [Started(w, job.id) EXCEPT
                           !.mq = Append(@, OnCatch(job, r.err))])

\* runOneJob after the sleep: ack, and the promise settles.
runOneJobResume(w, e) ==
    Settled(ack([w EXCEPT !.execs = @ \ {e}], e.job.id, processJobResult(e)))

\* A worker that drops a failure: no retry, no dead letter.
runOneJobCatch_dropped(w, job, errMsg) == Settled(w)

\* A worker that dead-letters one failure later (> for >=).
runOneJobCatch_late(w, job, errMsg) ==
    Settled(IF job.retries + 1 > (IF job.max_retries # 0
                                  THEN job.max_retries
                                  ELSE MAX_RETRIES)
            THEN sendToDlq(updateJob(w, job.id, [error_message |-> errMsg]),
                           job, errMsg, job.retries + 1)
            ELSE retry(w, job.id, errMsg))

\* runOneJob's catch block, and the promise settles.
runOneJobCatch(w, job, errMsg) ==
    Settled(IF job.retries + 1 >= (IF job.max_retries # 0
                                   THEN job.max_retries
                                   ELSE MAX_RETRIES)
            THEN sendToDlq(updateJob(w, job.id, [error_message |-> errMsg]),
                           job, errMsg, job.retries + 1)
            ELSE retry(w, job.id, errMsg))

\* A loop that fills one slot too many (<= for <).
RECURSIVE leaseLoop_over(_)
leaseLoop_over(w) ==
    IF w.inFlight <= WORKER_CONCURRENCY
    THEN Then(leaseOne(w), LAMBDA r :
             IF r.job.id = NULL
             THEN r.w
             ELSE Then(runOneJob([r.w EXCEPT !.inFlight = @ + 1], r.job),
                       LAMBDA x : leaseLoop_over(x)))
    ELSE w

RECURSIVE leaseLoop(_)
leaseLoop(w) ==
    IF w.inFlight < WORKER_CONCURRENCY
    THEN Then(leaseOne(w), LAMBDA r :
             IF r.job.id = NULL
             THEN r.w
             ELSE Then(runOneJob([r.w EXCEPT !.inFlight = @ + 1], r.job),
                       LAMBDA x : leaseLoop(x)))
    ELSE w

tryLeaseAndStart(w) == Then(releaseStaleLeases(w), LAMBDA x : leaseLoop(x))

\* A .finally callback that forgets inFlight -= 1.
onFinally_kept(w) == tryLeaseAndStart(w)

\* .finally(() => { inFlight -= 1; tryLeaseAndStart(); })
onFinally(w) == tryLeaseAndStart([w EXCEPT !.inFlight = @ - 1])

\* ---- backend/store.js: getJobs ----------------------------------------------
\* A JavaScript value passed as limit or offset: undefined, or a number
\* given as what parseInt returns (NaN, or an integer).
Undefined == [undef |-> TRUE, nan |-> FALSE, val |-> 0]

NaN == [undef |-> FALSE, nan |-> TRUE, val |-> 0]

Num(n) == [undef |-> FALSE, nan |-> FALSE, val |-> n]

\* A parameter with a default value: (x = dflt) in the parameter list
DefaultArg(x, dflt) == IF x.undef THEN Num(dflt) ELSE x

\* A sort that puts the oldest first (a - b for b - a).
sortByCreatedDesc_asc(list) ==
    [p \in 1..Len(list) |->
        list[CHOOSE i \in 1..Len(list) :
                 p = 1 + Cardinality({k \in 1..Len(list) :
                         \/ list[k].created_at < list[i].created_at
                         \/ list[k].created_at = list[i].created_at /\ k < i})]]

\* list.sort((a, b) => new Date(b.created_at) - new Date(a.created_at)): the
\* sort is stable, so the record at place i goes behind the newer records and
\* behind those of the same created_at that were before it.
sortByCreatedDesc(list) ==
    [p \in 1..Len(list) |->
        list[CHOOSE i \in 1..Len(list) :
                 p = 1 + Cardinality({k \in 1..Len(list) :
                         \/ list[k].created_at > list[i].created_at
                         \/ list[k].created_at = list[i].created_at /\ k < i})]]

\* list.slice(from, to) for 0 <= from <= to
slice(list, from, to) ==
    IF from >= Len(list)
    THEN <<>>
    ELSE SubSeq(list, from + 1, IF to < Len(list) THEN to ELSE Len(list))

\* Math.max(0, Number(offset) || 0)
offsetOf(offset) ==
    IF OrNumber(DefaultArg(offset, 0), 0) > 0
    THEN OrNumber(DefaultArg(offset, 0), 0)
    ELSE 0

\* Math.max(1, Math.min(Number(limit) || 100, 500))
limitOf(limit) ==
    IF OrNumber(DefaultArg(limit, 1000), 100) > 500
    THEN 500
    ELSE IF OrNumber(DefaultArg(limit, 1000), 100) < 1
    THEN 1
    ELSE OrNumber(DefaultArg(limit, 1000), 100)

\* status is NullStr for null; if (status) skips the filter for "" as well.
getJobs(w, status, limit, offset) ==
    Then(load(w), LAMBDA d :
        [w |-> d,
         val |-> slice(sortByCreatedDesc(
                           IF status = NullStr \/ status = ""
                           THEN Data(d).jobs
                           ELSE SelectSeq(Data(d).jobs,
                                          LAMBDA j : j.status = status)),
                       offsetOf(offset), offsetOf(offset) + limitOf(limit))])

\* ---- backend/main.js: GET /jobs ------------------------------------------
\* A query parameter is given like an environment variable: absent, empty,
\* a string parseInt makes nothing of, or one that starts with an integer.
ALLOWED_STATUSES == {"pending", "running", "done", "failed"}

\* rawStatus && ALLOWED_STATUSES.has(String(rawStatus)) ? String(rawStatus) : null
statusOf(rawStatus) == IF rawStatus \in ALLOWED_STATUSES THEN rawStatus ELSE NullStr

\* Math.min(Math.max(1, parseInt(req.query.limit || '100', 10) || 100), 500)
queryLimit(q) == Min(Max(1, OrNumber(parseInt(OrDefault(q, 100)), 100)), 500)

\* Math.max(0, parseInt(req.query.offset || '0', 10) || 0)
queryOffset(q) == Max(0, OrNumber(parseInt(OrDefault(q, 0)), 0))

RECURSIVE mapRowToJob(_)
mapRowToJob(rows) ==
    IF rows = <<>>
    THEN <<>>
    ELSE <<rowToJob(Head(rows))>> \o mapRowToJob(Tail(rows))

listJobsRoute(w, rawStatus, rawLimit, rawOffset) ==
    Then(getJobs(w, statusOf(rawStatus), Num(queryLimit(rawLimit)),
                 Num(queryOffset(rawOffset))),
         LAMBDA rows :
             Responded(rows.w,
                       [route |-> "GET /jobs", id |-> NULL, key |-> NullStr,
                        status |-> rawStatus, limit |-> rawLimit,
                        offset |-> rawOffset],
                       200,
                       [jobs |-> mapRowToJob(rows.val),
                        limit |-> queryLimit(rawLimit),
                        offset |-> queryOffset(rawOffset)]))

\* ---- backend/main.js: POST /jobs -----------------------------------------
\* POST /jobs with nothing of the worker in between.
postJobs(w, payload, tenantId, idempotencyKey) ==
    Then(apiLoad(w, payload, tenantId, idempotencyKey),
         LAMBDA x : IF CanSave(x) THEN apiSave(x) ELSE x)

\* GET /jobs/:id
getJobRoute(w, id) ==
    IF sanitizeJobId(id) = NULL
    THEN Responded(w, Request("GET /jobs/:id", id, NullStr), 400,
                   [error |-> "Invalid job id"])
    ELSE Then(getJob(w, sanitizeJobId(id)), LAMBDA row :
             IF row.val.id = NULL
             THEN Responded(row.w, Request("GET /jobs/:id", id, NullStr), 404,
                            [error |-> "Job not found"])
             ELSE Responded(row.w, Request("GET /jobs/:id", id, NullStr), 200,
                            rowToJob(row.val)))

\* A request no route of main.js matches: after the last app.use Express
\* answers 404 itself.
noRoute(w, req) == Responded(w, req, 404, [error |-> "Cannot POST"])

\* POST /jobs/:id/retry: main.js registers no such route.
postJobsRetry(w, id) == noRoute(w, Request("POST /jobs/:id/retry", id, NullStr))

\* ---- the state machine ----------------------------------------------------
Init ==
    /\ jobs = <<>>
    /\ dlq = <<>>
    /\ metrics = [jobs_submitted |-> 0, jobs_done |-> 0, jobs_failed |-> 0,
                  retries |-> 0]
    /\ now = 0
    /\ msec = 0
    /\ ratelimit = [t \in Tenants |-> <<>>]
    /\ resp = NoResp
    /\ workerUp = FALSE
    /\ inFlight = 0
    /\ execs = {}
    /\ mq = <<>>
    /\ crashes = 0
    /\ api = Idle
    /\ posted = 0
    /\ hist = [runs |-> [id \in JobIds |-> 0], held |-> {}, twice |-> FALSE,
               made |-> <<>>]

\* The most calls of the store one handler makes: tryLeaseAndStart reads the
\* stale records, releases each and makes three calls for every lease.
MaxCalls == 2 + MaxJobs + 3 * WORKER_CONCURRENCY

\* Where the API's load and save can fall inside the handler that runs now.
SaveInjections(k) ==
    {[NoInj EXCEPT !.saveAt = m, !.swallow = sw] : m \in k..MaxCalls, sw \in BOOLEAN}

Injections ==
    {NoInj}
    \cup (IF api.pc = "loaded" THEN SaveInjections(1) ELSE {})
    \cup (IF api.pc = "idle" /\ posted < MaxJobs
          THEN UNION {{[i EXCEPT !.loadAt = k, !.payload = p, !.tenant = t] :
                          i \in {NoInj} \cup SaveInjections(k),
                          p \in PayloadInputs, t \in TenantInputs} :
                      k \in 1..MaxCalls}
          ELSE {})

\* The handler ran to its end.
Commit(w) ==
    /\ jobs' = w.jobs
    /\ dlq' = w.dlq
    /\ metrics' = w.metrics
    /\ ratelimit' = w.ratelimit
    /\ resp' = w.resp
    /\ inFlight' = w.inFlight
    /\ execs' = w.execs
    /\ mq' = w.mq
    /\ api' = w.api
    /\ posted' = w.posted
    /\ hist' = w.hist

\* The worker process was killed after the handler's k-th write.
Killed(w, k) ==
    /\ jobs' = w.log[k].jobs
    /\ dlq' = w.log[k].dlq
    /\ metrics' = w.log[k].metrics
    /\ ratelimit' = w.log[k].ratelimit
    /\ resp' = w.log[k].resp
    /\ api' = w.log[k].api
    /\ posted' = w.log[k].posted
    /\ hist' = w.log[k].hist
    /\ workerUp' = FALSE
    /\ inFlight' = 0
    /\ execs' = {}
    /\ mq' = <<>>
    /\ crashes' = crashes + 1

\* POST /jobs reaches the load() of createJob.
ApiLoad ==
    /\ CanLoad(W0)
    /\ \E payload \in PayloadInputs, t \in TenantInputs :
           Commit(apiLoad(W0, payload, t, NullStr))
    /\ UNCHANGED <<now, msec, workerUp, crashes>>

\* createJob saves what it loaded and pushed, and POST /jobs answers.
ApiSave ==
    /\ CanSave(W0)
    /\ Commit(apiSave(W0))
    /\ UNCHANGED <<now, msec, workerUp, crashes>>

\* What the handler the worker runs on start-up, on the poll timer, on a due
\* sleep timer and as the next promise reaction would do, for each of the
\* ways I in which the API process can fall inside it.
StartHandlers(I) == {tryLeaseAndStart(W(inj)) : inj \in I}

PollHandlers(I) == {tryLeaseAndStart(W(inj)) : inj \in I}

SleepHandlers(I) ==
    {runOneJobResume(W(inj), e) : inj \in I, e \in {x \in execs : now >= x.wake}}

\* The result of running the reaction at the head of the queue.
RunReaction(w) ==
    LET t == Head(w.mq)
        w1 == [w EXCEPT !.mq = Tail(@)]
    IN  IF t.type = "catch"
        THEN runOneJobCatch(w1, t.job, t.err)
        ELSE onFinally(w1)

ReactionHandlers(I) == {RunReaction(W(inj)) : inj \in I}

\* What each handler the worker could run now would do.
WorkerHandlers(I) ==
    IF ~workerUp
    THEN StartHandlers(I)
    ELSE IF mq # <<>>
    THEN ReactionHandlers(I)
    ELSE PollHandlers(I) \cup SleepHandlers(I)

\* node worker.js: the module body runs tryLeaseAndStart() once.
WorkerStartIn(I) ==
    /\ ~workerUp
    /\ workerUp' = TRUE
    /\ \E w \in StartHandlers(I) : Commit(w)
    /\ UNCHANGED <<now, msec, crashes>>

\* setInterval(tryLeaseAndStart, POLL_MS) fires.
PollTimerIn(I) ==
    /\ workerUp
    /\ mq = <<>>
    /\ \E w \in PollHandlers(I) : Commit(w)
    /\ UNCHANGED <<now, msec, workerUp, crashes>>

\* The setTimeout of a sleeping execution fires.
SleepTimerIn(I) ==
    /\ workerUp
    /\ mq = <<>>
    /\ \E w \in SleepHandlers(I) : Commit(w)
    /\ UNCHANGED <<now, msec, workerUp, crashes>>

\* The next promise reaction runs.
MicrotaskIn(I) ==
    /\ workerUp
    /\ mq # <<>>
    /\ \E w \in ReactionHandlers(I) : Commit(w)
    /\ UNCHANGED <<now, msec, workerUp, crashes>>

\* The worker process is killed inside a handler, between two of its writes.
CrashInHandlerIn(I) ==
    /\ crashes < MaxCrashes
    /\ \E w \in WorkerHandlers(I) :
           \E k \in 1..(Len(w.log) - 1) : Killed(w, k)
    /\ UNCHANGED <<now, msec>>

\* The worker process is killed between two handlers.
Crash ==
    /\ workerUp
    /\ crashes < MaxCrashes
    /\ workerUp' = FALSE
    /\ inFlight' = 0
    /\ execs' = {}
    /\ mq' = <<>>
    /\ crashes' = crashes + 1
    /\ UNCHANGED <<jobs, dlq, metrics, now, msec, ratelimit, resp, api, posted, hist>>

\* A second passes.  The store calls and promise reactions of both processes
\* take far less than a second, and a due sleep timer fires within the second.
CanTick ==
    /\ api.pc = "idle"
    /\ workerUp => (mq = <<>> /\ \A e \in execs : now < e.wake)

Tick ==
    /\ now < MaxTime
    /\ CanTick
    /\ now' = now + 1
    /\ UNCHANGED <<jobs, dlq, metrics, msec, ratelimit, resp, workerUp, inFlight,
                   execs, mq, crashes, api, posted, hist>>

\* -- the two processes side by side, and the worker killed at any point ----
WorkerStart == WorkerStartIn(Injections)

PollTimer == PollTimerIn(Injections)

SleepTimer == SleepTimerIn(Injections)

Microtask == MicrotaskIn(Injections)

CrashInHandler == CrashInHandlerIn(Injections)

Next ==
    \/ ApiLoad
    \/ ApiSave
    \/ WorkerStart
    \/ PollTimer
    \/ SleepTimer
    \/ Microtask
    \/ Crash
    \/ CrashInHandler
    \/ Tick

Spec == Init /\ [][Next]_vars

\* -- a single worker process over a store nobody else is writing: every
\* -- POST /jobs falls between two handlers of the worker ---------------------
PostJobs ==
    /\ CanLoad(W0)
    /\ \E payload \in PayloadInputs, t \in TenantInputs :
           Commit(postJobs(W0, payload, t, NullStr))
    /\ UNCHANGED <<now, msec, workerUp, crashes>>

StartAlone == WorkerStartIn({NoInj})

PollAlone == PollTimerIn({NoInj})

SleepAlone == SleepTimerIn({NoInj})

ReactionAlone == MicrotaskIn({NoInj})

CrashInHandlerAlone == CrashInHandlerIn({NoInj})

WorkerNext ==
    \/ PostJobs
    \/ StartAlone
    \/ PollAlone
    \/ SleepAlone
    \/ ReactionAlone
    \/ Crash
    \/ CrashInHandlerAlone
    \/ Tick

WorkerSpec == Init /\ [][WorkerNext]_vars

\* -- the same with a worker process that is never killed --------------------
QuietNext ==
    \/ PostJobs
    \/ StartAlone
    \/ PollAlone
    \/ SleepAlone
    \/ ReactionAlone
    \/ Tick

QuietSpec == Init /\ [][QuietNext]_vars

\* -- the same with a clock that never stops: when now has reached MaxTime
\* -- a second passes by moving every time the program has stored one second
\* -- back.  The program only compares stored times with now and with each
\* -- other, and a time that is already MaxTime back or more stays where it
\* -- is: it is older than every age the program asks about.
Back(t) == IF t = NULL THEN NULL ELSE Max(t - 1, 0)

BackResult(r) == IF r = NullJson THEN r ELSE <<r[1], [r[2] EXCEPT !.at = Back(@)]>>

BackJob(j) ==
    IF j.id = NULL
    THEN j
    ELSE [j EXCEPT !.created_at = Back(@), !.updated_at = Back(@),
                   !.leased_at = Back(@), !.completed_at = Back(@),
                   !.result = BackResult(@)]

BackItem(d) == [d EXCEPT !.failed_at = Back(@), !.id = <<@[1], @[2], Back(@[3])>>]

BackResp(r) == IF r.status \in {200, 201} THEN [r EXCEPT !.body = BackJob(@)] ELSE r

BackMade(h) == [h EXCEPT !.made = [i \in DOMAIN @ |-> [@[i] EXCEPT !.sec = Back(@)]]]

TickOn ==
    /\ CanTick
    /\ IF now < MaxTime
       THEN /\ now' = now + 1
            /\ UNCHANGED <<jobs, dlq, ratelimit, resp, execs, mq, hist>>
       ELSE /\ now' = now
            /\ jobs' = [i \in DOMAIN jobs |-> BackJob(jobs[i])]
            /\ dlq' = [i \in DOMAIN dlq |-> BackItem(dlq[i])]
            /\ execs' = {[e EXCEPT !.job = BackJob(@), !.wake = Back(@)] : e \in execs}
            /\ mq' = [i \in DOMAIN mq |-> [mq[i] EXCEPT !.job = BackJob(@)]]
            /\ ratelimit' = [t \in Tenants |->
                                [i \in DOMAIN ratelimit[t] |-> Back(ratelimit[t][i])]]
            /\ resp' = BackResp(resp)
            /\ hist' = BackMade(hist)
    /\ UNCHANGED <<metrics, msec, workerUp, inFlight, crashes, api, posted>>

FairNext ==
    \/ PostJobs
    \/ StartAlone
    \/ PollAlone
    \/ SleepAlone
    \/ ReactionAlone
    \/ TickOn

\* The worker is started, its timers fire, its promise reactions run and
\* time passes.
FairSpec ==
    /\ Init
    /\ [][FairNext]_vars
    /\ WF_vars(StartAlone \/ PollAlone \/ SleepAlone \/ ReactionAlone)
    /\ WF_vars(TickOn)

\* -- a single worker process that is killed between handlers, with one job
\* -- more than the other specifications submit: more jobs than the worker
\* -- has slots ---------------------------------------------------------------
\* The rate limit admits MAX_NEW_JOBS_PER_MINUTE jobs of a tenant in a minute:
\* the job more is another tenant's.
PostMore ==
    /\ api.pc = "idle"
    /\ posted <= MaxJobs
    /\ \E payload \in PayloadInputs,
          t \in (IF posted < MaxJobs THEN TenantInputs ELSE Tenants \ TenantInputs) :
           Commit(postJobs(W0, payload, t, NullStr))
    /\ UNCHANGED <<now, msec, workerUp, crashes>>

RestartNext ==
    \/ PostMore
    \/ StartAlone
    \/ PollAlone
    \/ SleepAlone
    \/ ReactionAlone
    \/ Crash
    \/ Tick

RestartSpec == Init /\ [][RestartNext]_vars

\* -- the routes of the API and a single worker process that is never
\* -- killed, every request falling between two handlers of the worker; the
\* -- requests come from the tenant of TenantInputs, with or without an
\* -- Idempotency-Key ---------------------------------------------------------
\* The payloads submitted: a text of one character, which is one second of
\* work, and a job that fails.
ApiPayloads == {p \in PayloadInputs : p.text.len = 1}

PostJobsKey ==
    /\ api.pc = "idle"
    /\ \E payload \in ApiPayloads, rawKey \in KeyHeaders,
          h \in {x \in TenantHeaders : getTenant(x) \in TenantInputs} :
           \E w \in {postJobs(W0, payload, getTenant(h), idempotencyKeyOf(rawKey))} :
               /\ w.posted <= MaxJobs
               /\ Commit(w)
    /\ UNCHANGED <<now, msec, workerUp, crashes>>

GetJob ==
    /\ api.pc = "idle"
    /\ \E id \in JobIds \cup {NULL} : Commit(getJobRoute(W0, id))
    /\ UNCHANGED <<now, msec, workerUp, crashes>>

PostRetry ==
    /\ api.pc = "idle"
    /\ \E id \in JobIds :
           Commit(postJobsRetry(W0, id))
    /\ UNCHANGED <<now, msec, workerUp, crashes>>

ApiNext ==
    \/ PostJobsKey
    \/ GetJob
    \/ PostRetry
    \/ StartAlone
    \/ PollAlone
    \/ SleepAlone
    \/ ReactionAlone
    \/ Tick

ApiSpec == Init /\ [][ApiNext]_vars

\* -- a single worker process that is never killed, over a jobs.json into
\* -- which records whose payload is not JSON are written from outside (POST
\* -- /jobs itself stores JSON.stringify(payload), which always parses) -------
BadPayload == <<"text", "{">>

SeedBad ==
    /\ api.pc = "idle"
    /\ posted < MaxJobs
    /\ \E m \in {1, MAX_RETRIES} :
           jobs' = Append(jobs, [newJob(uuidv4(posted), [text |-> Txt(0)], "default",
                                        NullStr)
                                    EXCEPT !.payload = BadPayload, !.max_retries = m])
    /\ posted' = posted + 1
    /\ UNCHANGED <<dlq, metrics, now, msec, ratelimit, resp, workerUp, inFlight,
                   execs, mq, crashes, api, hist>>

BadPayloadNext ==
    \/ PostJobs
    \/ SeedBad
    \/ StartAlone
    \/ PollAlone
    \/ SleepAlone
    \/ ReactionAlone
    \/ Tick

BadPayloadSpec == Init /\ [][BadPayloadNext]_vars

\* -- the API process alone, over minutes: submissions of two tenants, with
\* -- or without an Idempotency-Key, restarts of the API process, and a clock
\* -- that is read half a second after a whole second and at the next whole
\* -- second that ends a rate-limit window --------------------------------------
PostJobsTenant ==
    /\ api.pc = "idle"
    /\ \E payload \in ApiPayloads, rawKey \in KeyHeaders, h \in TenantHeaders :
           \E w \in {postJobs(W0, payload, getTenant(h), idempotencyKeyOf(rawKey))} :
               /\ w.posted <= MaxJobs + 1
               /\ Commit(w)
    /\ UNCHANGED <<now, msec, workerUp, crashes>>

\* The API process is stopped and started again: it keeps nothing in memory
\* between two requests, and the client of the last request has gone.
ApiRestart ==
    /\ api' = Idle
    /\ resp' = NoResp
    /\ UNCHANGED <<jobs, dlq, metrics, now, msec, ratelimit, workerUp, inFlight,
                   execs, mq, crashes, posted, hist>>

TickHalf ==
    /\ now < RATE_LIMIT_WINDOW_SEC * MaxMinutes
    /\ IF msec = 0
       THEN msec' = 500 /\ now' = now
       ELSE msec' = 0 /\ now' = now + RATE_LIMIT_WINDOW_SEC
    /\ UNCHANGED <<jobs, dlq, metrics, ratelimit, resp, workerUp, inFlight, execs,
                   mq, crashes, api, posted, hist>>

RateNext ==
    \/ PostJobsTenant
    \/ ApiRestart
    \/ TickHalf

RateSpec == Init /\ [][RateNext]_vars

\* -- a single worker process over a jobs.json that, during a scheduling pass
\* -- started by the module body or by the poll timer, may become unreadable
\* -- or unwritable and stay so to the end of the pass -------------------------
IoInjections ==
    {NoInj} \cup {[NoInj EXCEPT !.failFrom = k, !.failKind = kind] :
                      k \in 1..MaxCalls, kind \in {"read", "write"}}

\* An error nothing catches ends the process: what it has written stays.
Exited(w) ==
    /\ jobs' = w.jobs
    /\ dlq' = w.dlq
    /\ metrics' = w.metrics
    /\ ratelimit' = w.ratelimit
    /\ resp' = w.resp
    /\ api' = w.api
    /\ posted' = w.posted
    /\ hist' = w.hist
    /\ workerUp' = FALSE
    /\ inFlight' = 0
    /\ execs' = {}
    /\ mq' = <<>>

StartIo ==
    /\ ~workerUp
    /\ \E w \in StartHandlers(IoInjections) :
           IF w.threw THEN Exited(w) ELSE Commit(w) /\ workerUp' = TRUE
    /\ UNCHANGED <<now, msec, crashes>>

PollIo ==
    /\ workerUp
    /\ mq = <<>>
    /\ \E w \in PollHandlers(IoInjections) :
           IF w.threw THEN Exited(w) ELSE Commit(w) /\ workerUp' = workerUp
    /\ UNCHANGED <<now, msec, crashes>>

IoNext ==
    \/ PostJobs
    \/ StartIo
    \/ PollIo
    \/ SleepAlone
    \/ ReactionAlone
    \/ Tick

IoSpec == Init /\ [][IoNext]_vars

\* -- a single worker process that is never killed, and the list route of the
\* -- API, every request falling between two handlers of the worker -----------
\* The queries sent, and the submissions: a text of one character, which is
\* one second of work, and a job that fails.
\* Each query is <<status, limit, offset>>.
ListQueries ==
    { <<NullStr, <<"int", 0>>, <<"unset">>>>,
      <<"pending", <<"unset">>, <<"unset">>>>,
      <<"pending", <<"int", 1>>, <<"int", 1>>>> }

PostListed ==
    /\ CanLoad(W0)
    /\ \E payload \in ApiPayloads, t \in TenantInputs :
           Commit(postJobs(W0, payload, t, NullStr))
    /\ UNCHANGED <<now, msec, workerUp, crashes>>

ListJobs ==
    /\ api.pc = "idle"
    /\ \E q \in ListQueries : Commit(listJobsRoute(W0, q[1], q[2], q[3]))
    /\ UNCHANGED <<now, msec, workerUp, crashes>>

ListNext ==
    \/ PostListed
    \/ ListJobs
    \/ StartAlone
    \/ PollAlone
    \/ SleepAlone
    \/ ReactionAlone
    \/ Tick

ListSpec == Init /\ [][ListNext]_vars

\* -- the API process and a worker process that is never killed, side by
\* -- side: a createJob of the API may fall between two handlers of the
\* -- worker or anywhere among the store calls of a scheduling pass started by
\* -- the module body or by the poll timer, and during such a pass jobs.json
\* -- may become unwritable and stay so to the end of the pass ----------------
\* One createJob of the API process inside the pass, or a jobs.json that
\* cannot be written from some call on.
LeaseInjections ==
    {inj \in Injections : inj.payload \in {<<>>} \cup ApiPayloads}
    \cup {inj \in IoInjections : inj.failKind = "write"}

ApiLoadOne ==
    /\ CanLoad(W0)
    /\ \E payload \in ApiPayloads, t \in TenantInputs :
           Commit(apiLoad(W0, payload, t, NullStr))
    /\ UNCHANGED <<now, msec, workerUp, crashes>>

StartLease == WorkerStartIn(LeaseInjections)

PollLease == PollTimerIn(LeaseInjections)

LeaseNext ==
    \/ ApiLoadOne
    \/ ApiSave
    \/ StartLease
    \/ PollLease
    \/ SleepAlone
    \/ ReactionAlone
    \/ Tick

LeaseSpec == Init /\ [][LeaseNext]_vars

\* -- a single worker process that is never killed, with a clock that may
\* -- advance between any two handlers, also between a handler and the
\* -- promise reactions it queued, and with records in jobs.json that were
\* -- created while the API ran with MAX_RETRIES=1 ------------------------------
FailingPayload == [text |-> Txt(1), fail |-> TRUE, invalid |-> FALSE]

SeedSingleAttempt ==
    /\ api.pc = "idle"
    /\ posted < MaxJobs
    /\ jobs' = Append(jobs, [newJob(uuidv4(posted), FailingPayload, "default", NullStr)
                                EXCEPT !.max_retries = 1])
    /\ posted' = posted + 1
    /\ UNCHANGED <<dlq, metrics, now, msec, ratelimit, resp, workerUp, inFlight,
                   execs, mq, crashes, api, hist>>

TickAnywhere ==
    /\ now < MaxTime
    /\ api.pc = "idle"
    /\ now' = now + 1
    /\ UNCHANGED <<jobs, dlq, metrics, msec, ratelimit, resp, workerUp, inFlight,
                   execs, mq, crashes, api, posted, hist>>

SlowNext ==
    \/ PostJobs
    \/ SeedSingleAttempt
    \/ StartAlone
    \/ PollAlone
    \/ SleepAlone
    \/ ReactionAlone
    \/ TickAnywhere

SlowSpec == Init /\ [][SlowNext]_vars

\* -- a single worker process that is killed, between two handlers or
\* -- between two writes of a handler, and started again, with the clock that
\* -- never stops: the worker is started whenever it is down, its timers fire,
\* -- its promise reactions run and time passes ---------------------------------
RecoverNext ==
    \/ PostJobs
    \/ StartAlone
    \/ PollAlone
    \/ SleepAlone
    \/ ReactionAlone
    \/ Crash
    \/ CrashInHandlerAlone
    \/ TickOn

RecoverSpec ==
    /\ Init
    /\ [][RecoverNext]_vars
    /\ WF_vars(StartAlone \/ PollAlone \/ SleepAlone \/ ReactionAlone)
    /\ WF_vars(TickOn)

\* -- the API process and a worker process that is never killed, side by
\* -- side on metrics.json: store.incrementJobSubmitted() of POST /jobs is
\* -- loadMetrics(), add one, saveMetrics(), and handlers of the worker may
\* -- run between its read and its write; createJob itself falls between two
\* -- handlers of the worker ---------------------------------------------------
\* POST /jobs up to the loadMetrics() of incrementJobSubmitted: createJob and
\* addRateLimitTimestamp are done, the API process holds what it read from
\* metrics.json.
postJobsToLoadMetrics(w, payload, tenantId, idempotencyKey) ==
    Then(apiLoad(w, payload, tenantId, idempotencyKey), LAMBDA x :
        IF ~CanSave(x)
        THEN x
        ELSE Then(addRateLimitTimestamp(
                      writeFile(Made([x EXCEPT !.api = Idle], x.api.job),
                                [jobs |-> Append(x.api.snap.jobs, x.api.job),
                                 dlq |-> x.api.snap.dlq]),
                      x.api.job.tenant_id),
                  LAMBDA y : [y EXCEPT !.api = [pc |-> "counting",
                                                snap |-> Idle.snap,
                                                job |-> x.api.job,
                                                metrics |-> y.metrics]]))

\* The rest of incrementJobSubmitted (add one, saveMetrics) and of POST /jobs.
saveLoadedMetrics(w) ==
    Responded(saveMetrics([w EXCEPT !.api = Idle],
                          [w.api.metrics EXCEPT !.jobs_submitted = @ + 1]),
              Request("POST /jobs", NULL, w.api.job.idempotency_key), 201,
              rowToJob(w.api.job))

PostToLoadMetrics ==
    /\ CanLoad(W0)
    /\ \E payload \in ApiPayloads, t \in TenantInputs :
           Commit(postJobsToLoadMetrics(W0, payload, t, NullStr))
    /\ UNCHANGED <<now, msec, workerUp, crashes>>

SaveLoadedMetrics ==
    /\ api.pc = "counting"
    /\ Commit(saveLoadedMetrics(W0))
    /\ UNCHANGED <<now, msec, workerUp, crashes>>

MetricsNext ==
    \/ PostToLoadMetrics
    \/ SaveLoadedMetrics
    \/ StartAlone
    \/ PollAlone
    \/ SleepAlone
    \/ ReactionAlone
    \/ Tick

MetricsSpec == Init /\ [][MetricsNext]_vars

\* ---- what the claims are stated over -----------------------------------
Statuses == {"pending", "running", "done", "failed"}

Terminal(j) == j.status \in {"done", "failed"}

JobIx == 1..Len(jobs)

\* The writes of a handler, each as <<outside before, outside after>>.
WritesOf(w) ==
    {<<IF k = 1 THEN Outside(W0) ELSE w.log[k - 1], w.log[k]>> : k \in 1..Len(w.log)}

\* Every write that a handler of the worker, or POST /jobs, could make in
\* this state.
Writes ==
    UNION {WritesOf(w) : w \in WorkerHandlers({NoInj})}
    \cup (IF CanLoad(W0)
          THEN UNION {WritesOf(postJobs(W0, p, t, NullStr)) :
                          p \in PayloadInputs, t \in TenantInputs}
          ELSE {})

\* The transition table of the job state machine.
TableTransition(a, b) ==
    \/ a.status = "pending" /\ b.status = "running"
    \/ a.status = "running" /\ b.status = "pending" /\ b.retries = a.retries
    \/ a.status = "running" /\ b.status = "done"
    \/ a.status = "running" /\ b.status = "pending" /\ b.retries = a.retries + 1
    \/ a.status = "running" /\ b.status = "failed"

\* What the work function does with the payload of a record.
WorkOf(j) == processJob(JSON_parse(j.payload))

\* The dead-letter records of a job.
DlqOf(id) == {k \in 1..Len(dlq) : dlq[k].job_id = id}

\* No execution of the job is in flight in the worker process.
NoExecution(id) ==
    /\ \A e \in execs : e.job.id # id
    /\ \A k \in 1..Len(mq) : mq[k].type = "catch" => mq[k].job.id # id

Expired(j) ==
    j.status = "running" /\ j.leased_at # NULL /\ now - j.leased_at > LEASE_TIMEOUT_SEC

\* C1: every record's status is one of pending, running, done, failed, and
\* every write that changes a record's status makes a transition of the
\* table (claim, lease expiry, ack, retry with the counter + 1, dead-letter).
C1_TransitionTable ==
    /\ \A i \in JobIx : jobs[i].status \in Statuses
    /\ \A wr \in Writes :
           \A i \in 1..Len(wr[1].jobs) :
               wr[1].jobs[i].status # wr[2].jobs[i].status
                   => TableTransition(wr[1].jobs[i], wr[2].jobs[i])

\* C2: once a record is done or failed, no write changes any of its fields.
C2_TerminalFrozen ==
    \A wr \in Writes :
        \A i \in 1..Len(wr[1].jobs) :
            Terminal(wr[1].jobs[i]) => wr[2].jobs[i] = wr[1].jobs[i]

\* C3: with the worker running and its passes, timers and reactions fair,
\* every job that POST /jobs created is eventually done or failed, and a
\* record that is done stays done and one that is failed stays failed.
C3_EveryJobEnds ==
    /\ \A id \in JobIds :
           [](posted > MaxJobs - id
                 => <>(\E i \in JobIx : jobs[i].id = id /\ Terminal(jobs[i])))
    /\ [][\A i \in JobIx : Terminal(jobs[i]) => jobs'[i].status = jobs[i].status]_vars

C3_Witness ==
    /\ \E i \in JobIx : jobs[i].status = "done"
    /\ \E i \in JobIx : jobs[i].status = "failed" /\ DlqOf(jobs[i].id) # {}

\* C4: a job whose work function always fails is executed max_retries = N
\* times and no more: after r < N failures it is pending with retries = r and
\* error_message the failure message, and no dead-letter record; once failed
\* it has run N times, and there is exactly one dead-letter record for it,
\* with retries = N and last_error the failure message.
C4_RetriesThenDeadLetter ==
    \A i \in JobIx :
        ~WorkOf(jobs[i]).ok =>
            /\ hist.runs[jobs[i].id] <= jobs[i].max_retries
            /\ jobs[i].status # "done"
            /\ jobs[i].status = "pending" =>
                   /\ hist.runs[jobs[i].id] < jobs[i].max_retries
                   /\ jobs[i].retries = hist.runs[jobs[i].id]
                   /\ jobs[i].retries >= 1 =>
                          jobs[i].error_message = WorkOf(jobs[i]).err
                   /\ DlqOf(jobs[i].id) = {}
            /\ jobs[i].status = "running" =>
                   /\ jobs[i].retries = hist.runs[jobs[i].id] - 1
                   /\ DlqOf(jobs[i].id) = {}
            /\ jobs[i].status = "failed" =>
                   /\ hist.runs[jobs[i].id] = jobs[i].max_retries
                   /\ jobs[i].error_message = WorkOf(jobs[i]).err
                   /\ Cardinality(DlqOf(jobs[i].id)) = 1
                   /\ \A k \in DlqOf(jobs[i].id) :
                          /\ dlq[k].retries = jobs[i].max_retries
                          /\ dlq[k].last_error = WorkOf(jobs[i]).err

C4_Witness ==
    \E i \in JobIx :
        /\ ~WorkOf(jobs[i]).ok
        /\ jobs[i].status = "failed"
        /\ hist.runs[jobs[i].id] = jobs[i].max_retries
        /\ metrics.retries >= jobs[i].max_retries - 1
        /\ DlqOf(jobs[i].id) # {}

\* C5: the dead-letter list never holds two records for one job_id.
C5_OneDeadLetterPerJob ==
    \A a, b \in 1..Len(dlq) : dlq[a].job_id = dlq[b].job_id => a = b

C7_CompletedAtOnce ==
    /\ \A i \in JobIx : jobs[i].completed_at # NULL <=> Terminal(jobs[i])
    /\ \A wr \in Writes :
           \A i \in 1..Len(wr[1].jobs) :
               wr[1].jobs[i].completed_at # NULL
                   => wr[2].jobs[i].completed_at = wr[1].jobs[i].completed_at

\* What ack writes for an execution whose sleep is over: the record before
\* and after the first write of the handler.
AckWrites ==
    {<<jobs[findIndex(jobs, e.job.id)],
       runOneJobResume(W0, e).log[1].jobs[findIndex(jobs, e.job.id)]>> :
         e \in {x \in execs : now >= x.wake}}

\* C8: the ack of a successful execution writes status done, a result and a
\* completed_at that are not null, and the retries the record had; a record
\* whose work function succeeds is never failed, always has retries = 0, and
\* has a result and a completed_at once it is done.
C8_AckDone ==
    /\ \A wr \in AckWrites :
           /\ wr[2].status = "done"
           /\ wr[2].result # NullJson
           /\ wr[2].completed_at # NULL
           /\ wr[2].retries = wr[1].retries
    /\ \A i \in JobIx :
           WorkOf(jobs[i]).ok =>
               /\ jobs[i].status # "failed"
               /\ jobs[i].retries = 0
               /\ jobs[i].status = "done" =>
                      jobs[i].result # NullJson /\ jobs[i].completed_at # NULL

C8_Witness ==
    \E i \in JobIx :
        /\ jobs[i].status = "done"
        /\ jobs[i].retries = 0
        /\ jobs[i].result # NullJson
        /\ metrics.jobs_done >= 1

\* C9 as stated: a running record whose execution is gone is never seen with
\* a lease older than LEASE_TIMEOUT.
C9_ExpiredSeenPending ==
    \A i \in JobIx : ~(Expired(jobs[i]) /\ NoExecution(jobs[i].id))

\* C9: every pass of tryLeaseAndStart writes status pending and leased_at
\* null to each record that it read as running with a lease older than
\* LEASE_TIMEOUT, wherever the API process falls in the pass.
C9_PassReleasesExpired ==
    \A inj \in Injections :
        \A j \in {getStaleRunningJobs(W(inj), LEASE_TIMEOUT_SEC).val[n] :
                      n \in 1..Len(getStaleRunningJobs(W(inj), LEASE_TIMEOUT_SEC).val)} :
            \E k \in 1..Len(tryLeaseAndStart(W(inj)).log) :
                \E i \in 1..Len(tryLeaseAndStart(W(inj)).log[k].jobs) :
                    /\ tryLeaseAndStart(W(inj)).log[k].jobs[i].id = j.id
                    /\ tryLeaseAndStart(W(inj)).log[k].jobs[i].status = "pending"
                    /\ tryLeaseAndStart(W(inj)).log[k].jobs[i].leased_at = NULL

C9_Witness ==
    \E i \in JobIx :
        /\ jobs[i].status = "pending"
        /\ jobs[i].retries = 0
        /\ jobs[i].leased_at = NULL
        /\ jobs[i].updated_at > jobs[i].created_at + LEASE_TIMEOUT_SEC
        /\ NoExecution(jobs[i].id)

\* C10: leaseOne never returns a record that an earlier call returned unless
\* retry or the release of an expired lease has written it in between.
C10_OneCallerPerClaim == ~hist.twice

C10_Witness ==
    /\ ~hist.twice
    /\ \E i \in JobIx : hist.runs[jobs[i].id] >= 2 /\ jobs[i].id \in hist.held
    /\ inFlight = WORKER_CONCURRENCY

\* C11: inFlight is between 0 and WORKER_CONCURRENCY and counts the
\* executions of runOneJob that were started and whose .finally callback has
\* not run yet (asleep, or with a reaction still queued); and config.js makes
\* a WORKER_CONCURRENCY in 1..5 of whatever the environment holds.
C11_InFlightBounded ==
    /\ inFlight \in 0..WORKER_CONCURRENCY
    /\ inFlight = Cardinality(execs) + Len(mq)
    /\ \A env \in EnvInputs : workerConcurrency(env) \in 1..5
    /\ workerConcurrency(<<"int", WORKER_CONCURRENCY>>) = WORKER_CONCURRENCY

C11_Witness ==
    /\ inFlight = WORKER_CONCURRENCY
    /\ execs # {}
    /\ mq # <<>>
    /\ crashes > 0

\* The records with status running.
Running == {i \in JobIx : jobs[i].status = "running"}

\* C12 as stated: at most WORKER_CONCURRENCY records have status running.
C12_RunningRecordsBounded == Cardinality(Running) <= WORKER_CONCURRENCY

\* C12: at most WORKER_CONCURRENCY running records have an execution in
\* flight in the worker; the other running records were left by a worker
\* that was killed, and no execution of them exists.
C12_RunningExecutionsBounded ==
    Cardinality({i \in Running : ~NoExecution(jobs[i].id)}) <= WORKER_CONCURRENCY

C12_Witness ==
    /\ Cardinality(Running) > WORKER_CONCURRENCY
    /\ Cardinality({i \in Running : ~NoExecution(jobs[i].id)}) = 1

\* The worlds in which the next pass of the worker may call leaseOne first:
\* the store as it is, and as releaseStaleLeases leaves it.
LeaseWorlds == {W0, releaseStaleLeases(W0)}

\* The places in the array of the records that are pending in world w.
PendingIn(w) == {i \in 1..Len(w.jobs) : w.jobs[i].status = "pending"}

\* The pending records of w with the smallest created_at.
OldestIn(w) ==
    {i \in PendingIn(w) :
        \A k \in PendingIn(w) : w.jobs[i].created_at <= w.jobs[k].created_at}

\* C13 as stated: leaseOne claims a pending record with the smallest
\* created_at, and among several of those the one with the smallest id.
C13_OldestThenSmallestId ==
    \A w \in LeaseWorlds :
        \A r \in {leaseOne(w)} :
            /\ r.job.id = NULL <=> PendingIn(w) = {}
            /\ r.job.id # NULL =>
                   \E i \in OldestIn(w) :
                       /\ w.jobs[i].id = r.job.id
                       /\ \A k \in OldestIn(w) : w.jobs[i].id <= w.jobs[k].id

\* C13: leaseOne claims a pending record with the smallest created_at, and
\* among several of those the one that comes first in the array of jobs.json
\* (the one submitted first); the record it returns is that one, running.
C13_OldestThenFirstInFile ==
    \A w \in LeaseWorlds :
        \A r \in {leaseOne(w)} :
            /\ r.job.id = NULL <=> PendingIn(w) = {}
            /\ r.job.id # NULL =>
                   \E i \in OldestIn(w) :
                       /\ w.jobs[i].id = r.job.id
                       /\ \A k \in OldestIn(w) : i <= k
                       /\ r.w.jobs[i].status = "running"
                       /\ r.job = r.w.jobs[i]

\* A record was claimed while one of the same created_at, a smaller id and
\* a later place in the file was pending and never claimed.
C13_Witness ==
    \E i, k \in JobIx :
        /\ i < k
        /\ jobs[i].created_at = jobs[k].created_at
        /\ jobs[i].id > jobs[k].id
        /\ jobs[i].status = "running"
        /\ jobs[k].status = "pending"
        /\ jobs[k].updated_at = jobs[k].created_at
        /\ jobs[k].retries = 0

\* The idempotency keys that are stored on a record.
StoredKeys == {jobs[i].idempotency_key : i \in JobIx} \ {NullStr}

\* The tenant has had MAX_NEW_JOBS_PER_MINUTE records created in the last
\* RATE_LIMIT_WINDOW_SEC seconds, counted in whole seconds.
Exhausted(t) ==
    Cardinality({m \in DOMAIN hist.made :
                    /\ hist.made[m].tenant = t
                    /\ now - hist.made[m].sec < RATE_LIMIT_WINDOW_SEC})
        >= MAX_NEW_JOBS_PER_MINUTE

\* The response is the record of some job that has the key, as it now is.
ReturnsRecordOf(r, k) ==
    /\ r.status = 200
    /\ \E i \in JobIx :
           /\ jobs[i].idempotency_key = k
           /\ r.body.id = jobs[i].id
           /\ r.body.status = jobs[i].status
           /\ r.body.retries = jobs[i].retries

\* C14 (as stated): a POST /jobs with an Idempotency-Key that is stored on a
\* record creates no record and returns the record that has the key (its id,
\* its current status and retries), whatever the sender's rate-limit budget
\* and whatever the state of the record.
C14_StoredKeyReturnsRecord ==
    api.pc = "idle" =>
        \A k \in StoredKeys, p \in PayloadInputs, h \in TenantHeaders :
            \A w \in {postJobs(W0, p, getTenant(h), k)} :
                /\ w.jobs = jobs /\ w.dlq = dlq /\ w.posted = posted
                /\ ReturnsRecordOf(w.resp, k)

\* C14 (amended): a POST /jobs with an Idempotency-Key that is stored on a
\* record creates no record; it returns the record that has the key (its id,
\* its current status and retries) when the sender's rate-limit budget is
\* not used up, and is answered 429 when it is; whatever the state of the
\* record.
C14_StoredKeyCreatesNone ==
    api.pc = "idle" =>
        \A k \in StoredKeys, p \in PayloadInputs, h \in TenantHeaders :
            \A w \in {postJobs(W0, p, getTenant(h), k)} :
                /\ w.jobs = jobs /\ w.dlq = dlq /\ w.posted = posted
                /\ IF Exhausted(getTenant(h))
                   THEN w.resp.status = 429
                   ELSE ReturnsRecordOf(w.resp, k)

\* A repeated submission was answered with the record, which had been
\* dead-lettered by then.
C14_Witness ==
    /\ resp.req.route = "POST /jobs"
    /\ resp.req.key # NullStr
    /\ resp.status = 200
    /\ resp.body.status = "failed"
    /\ \E i \in JobIx : jobs[i].id = resp.body.id /\ jobs[i].idempotency_key = resp.req.key

\* C15: POST /jobs/:id/retry for a failed job adds one record to the store,
\* with an id no record had, the payload of the failed job, status pending
\* and retries 0, and leaves the failed record as it was.
C15_RetryCreatesJob ==
    api.pc = "idle" =>
        \A i \in JobIx :
            jobs[i].status = "failed" =>
                \A w \in {postJobsRetry(W0, jobs[i].id)} :
                    /\ Len(w.jobs) = Len(jobs) + 1
                    /\ \A k \in JobIx : w.jobs[k] = jobs[k]
                    /\ \A k \in JobIx : w.jobs[Len(w.jobs)].id # jobs[k].id
                    /\ w.jobs[Len(w.jobs)].payload = jobs[i].payload
                    /\ w.jobs[Len(w.jobs)].status = "pending"
                    /\ w.jobs[Len(w.jobs)].retries = 0

\* The response is the record j, with its payload parsed.
ReturnsRecord(r, j) ==
    /\ r.status \in {200, 201}
    /\ r.body.id = j.id
    /\ r.body.status = j.status
    /\ r.body.retries = j.retries
    /\ r.body.max_retries = j.max_retries
    /\ r.body.payload = <<"object", JSON_parse(j.payload)>>
    /\ r.body.leased_at = j.leased_at
    /\ r.body.completed_at = j.completed_at
    /\ r.body.result = j.result
    /\ r.body.error_message = j.error_message

\* The record is as POST /jobs is to create it for the payload p.
FreshPending(j, p) ==
    /\ \A k \in JobIx : jobs[k].id # j.id
    /\ j.status = "pending"
    /\ j.retries = 0
    /\ j.max_retries = MAX_RETRIES
    /\ j.payload = JSON_stringify(p)
    /\ j.leased_at = NULL
    /\ j.completed_at = NULL
    /\ j.result = NullJson
    /\ j.error_message = NullStr

\* C16: a POST /jobs that passes admission (the tenant's budget is not used
\* up and the key, if any, is not stored) adds exactly one record to the
\* store, with an id no record had, status pending, retries 0, max_retries
\* MAX_RETRIES and null leased_at, completed_at, result and error_message, and
\* answers 201 with it; GET /jobs/:id for the id then returns the record, and
\* GET /jobs/:id for a record no execution of the worker was started for
\* returns it with status pending.
C16_PostCreatesOnePending ==
    api.pc = "idle" =>
        /\ \A p \in PayloadInputs, h \in TenantHeaders, rawKey \in KeyHeaders :
               (~Exhausted(getTenant(h)) /\ idempotencyKeyOf(rawKey) \notin StoredKeys) =>
                   \A w \in {postJobs(W0, p, getTenant(h), idempotencyKeyOf(rawKey))} :
                       /\ Len(w.jobs) = Len(jobs) + 1
                       /\ \A k \in JobIx : w.jobs[k] = jobs[k]
                       /\ w.dlq = dlq
                       /\ FreshPending(w.jobs[Len(w.jobs)], p)
                       /\ w.resp.status = 201
                       /\ ReturnsRecord(w.resp, w.jobs[Len(w.jobs)])
                       /\ ReturnsRecord(getJobRoute(w, w.jobs[Len(w.jobs)].id).resp,
                                        w.jobs[Len(w.jobs)])
        /\ \A i \in JobIx :
               hist.runs[jobs[i].id] = 0 =>
                   /\ jobs[i].status = "pending"
                   /\ ReturnsRecord(getJobRoute(W0, jobs[i].id).resp, jobs[i])

\* GET /jobs/:id has returned, with status pending, a record that is in the
\* store and that the worker, which is running, has not touched.
C16_Witness ==
    /\ resp.req.route = "GET /jobs/:id"
    /\ resp.status = 200
    /\ resp.body.status = "pending"
    /\ workerUp
    /\ \E i \in JobIx :
           /\ jobs[i].id = resp.req.id
           /\ hist.runs[jobs[i].id] = 0
           /\ jobs[i].created_at < now

\* The stored payload of the record cannot be parsed.
Unparsable(j) == j.payload # NullJson /\ ~JSON_parses(j.payload)

MadeAt(m) == 1000 * hist.made[m].sec + hist.made[m].msec

\* The records of the tenant that createJob saved in the ms milliseconds
\* that begin with the a-th save.
MadeWithin(t, a, ms) ==
    {b \in DOMAIN hist.made :
        /\ hist.made[b].tenant = t
        /\ MadeAt(b) >= MadeAt(a)
        /\ MadeAt(b) - MadeAt(a) < ms}

\* C18: for every tenant, the records POST /jobs creates within any window
\* of 60 seconds are at most MAX_NEW_JOBS_PER_MINUTE, after any sequence of
\* submissions and restarts of the API; and whether a tenant's submission is
\* admitted depends on that tenant's own records only.
C18_RatePerMinute ==
    /\ \A t \in Tenants, a \in DOMAIN hist.made :
           Cardinality(MadeWithin(t, a, 1000 * RATE_LIMIT_WINDOW_SEC))
               <= MAX_NEW_JOBS_PER_MINUTE
    /\ \A h \in TenantHeaders, p \in ApiPayloads :
           postJobs(W0, p, getTenant(h), NullStr).resp.status =
               IF Exhausted(getTenant(h)) THEN 429 ELSE 201

\* C19: every record createJob has saved is in the store, under every
\* interleaving of the API's createJob with the worker's updateJob and
\* addToDlq on jobs.json.
C19_NoJobLost ==
    \A m \in DOMAIN hist.made : \E i \in JobIx : jobs[i].id = hist.made[m].id

\* C20: a scheduling pass (tryLeaseAndStart) during which the store cannot be
\* read or written is skipped from there on: the worker process does not
\* crash, and no execution is started, inFlight staying what it was when the
\* failure was met.
C20_StoreFailureSkipsPass ==
    \A inj \in IoInjections :
        \A w \in {tryLeaseAndStart(W(inj))} :
            w.met # NULL => (~w.threw /\ w.inFlight = w.met)

\* The arguments getJobs is called with.
StatusArgs == {NullStr, ""} \cup Statuses \cup {"bogus"}

LimitNumbers == {Num(n) : n \in {0 - 1, 0, 1, 2, 501}}

OffsetNumbers == {Num(n) : n \in (0 - 1)..2}

\* The places in the array of the records the filter lets through.
Matching(s) == {i \in JobIx : s \in {NullStr, ""} \/ jobs[i].status = s}

Clamp(n, lo, hi) == IF n < lo THEN lo ELSE IF n > hi THEN hi ELSE n

\* r is what stands at the places off + 1 .. off + lim of the records the
\* filter s lets through when they are put in descending order of created_at.
IsPage(r, s, lim, off) ==
    /\ Len(r) = Max(0, Min(lim, Cardinality(Matching(s)) - off))
    /\ \A k \in 1..Len(r) : \E i \in Matching(s) : r[k] = jobs[i]
    /\ \A k \in 1..(Len(r) - 1) : r[k].created_at >= r[k + 1].created_at
    /\ \A k \in 1..Len(r) :
           /\ Cardinality({i \in Matching(s) :
                               jobs[i].created_at > r[k].created_at}) <= off + k - 1
           /\ Cardinality({i \in Matching(s) :
                               jobs[i].created_at >= r[k].created_at}) >= off + k

\* The pages of lim records, taken one after the other, hold every record the
\* filter lets through exactly once.
PagesPartition(s, lim) ==
    \A pages \in {[p \in 0..Len(jobs) |-> getJobs(W0, s, Num(lim), Num(p * lim)).val]} :
        \A i \in Matching(s) :
            Cardinality({pk \in (0..Len(jobs)) \X (1..lim) :
                            /\ pk[2] <= Len(pages[pk[1]])
                            /\ pages[pk[1]][pk[2]].id = jobs[i].id}) = 1

\* C21 (as stated): getJobs(status, limit, offset) returns the records whose
\* status is the filter (all without a filter) that stand, in descending
\* order of created_at, at the places [offset, offset + limit), the limit
\* clamped to 1..500 and the offset to >= 0; consecutive pages are disjoint
\* and together hold every matching record once.
C21_PageOfClampedLimit ==
    /\ \A s \in StatusArgs, l \in LimitNumbers, o \in OffsetNumbers :
           \A r \in {getJobs(W0, s, l, o).val} :
               IsPage(r, s, Clamp(l.val, 1, 500), Clamp(o.val, 0, o.val))
    /\ \A s \in StatusArgs, lim \in 1..3 : PagesPartition(s, lim)

\* C21 (amended): the same, a limit of 0 being read as 100 like a limit that
\* is not a number, and a limit that is not given as 1000 (hence 500); an
\* offset that is not a number or not given is 0.
C21_PageOfLimit ==
    /\ \A s \in StatusArgs, l \in LimitNumbers \cup {NaN, Undefined},
          o \in OffsetNumbers \cup {NaN, Undefined} :
           \A r \in {getJobs(W0, s, l, o).val} :
               IsPage(r, s,
                      IF l.undef THEN 500
                      ELSE IF l.nan \/ l.val = 0 THEN 100
                      ELSE Clamp(l.val, 1, 500),
                      IF o.undef \/ o.nan THEN 0 ELSE Clamp(o.val, 0, o.val))
    /\ \A l \in LimitNumbers : l.val # 0 => limitOf(l) = Clamp(l.val, 1, 500)
    /\ \A s \in StatusArgs, lim \in 1..3 : PagesPartition(s, lim)

\* GET /jobs?limit=0 was answered with two records, the newer one first,
\* the older one done.
C21_Witness ==
    /\ resp.req.route = "GET /jobs"
    /\ resp.req.limit = <<"int", 0>>
    /\ resp.status = 200
    /\ Len(resp.body.jobs) = 2
    /\ resp.body.jobs[1].created_at > resp.body.jobs[2].created_at
    /\ resp.body.jobs[2].status = "done"
    /\ resp.body.jobs[1].id = jobs[2].id

\* C22: every pending or running record has retries < max_retries, and every
\* dead-letter record has retries <= the max_retries of its job: retry never
\* re-queues a job whose counter has reached the ceiling, wherever the API
\* process and a kill of the worker fall between the lease, the decision and
\* the re-read of the counter in retry.
C22_RetriesBelowCeiling ==
    /\ \A i \in JobIx :
           jobs[i].status \in {"pending", "running"} =>
               jobs[i].retries < jobs[i].max_retries
    /\ \A k \in 1..Len(dlq) :
           /\ dlq[k].retries <= MAX_RETRIES
           /\ \A i \in JobIx :
                  jobs[i].id = dlq[k].job_id => dlq[k].retries <= jobs[i].max_retries

\* C23: once a job is dead-lettered, the retries of its record is the number
\* of executions made of it and is the retries of its dead-letter record; a
\* job that always fails ends failed with retries = max_retries.
C23_FailedRecordCountsAttempts ==
    \A i \in JobIx :
        jobs[i].status = "failed" =>
            /\ jobs[i].retries = hist.runs[jobs[i].id]
            /\ \A k \in DlqOf(jobs[i].id) : jobs[i].retries = dlq[k].retries
            /\ ~WorkOf(jobs[i]).ok => jobs[i].retries = jobs[i].max_retries

\* C24: releaseStaleLeases writes, on each record that is running with a
\* lease older than LEASE_TIMEOUT, status pending, leased_at null and
\* updated_at, and nothing else: retries, error_message, payload, created_at
\* and max_retries stay; it changes no other record, no dead-letter record
\* and no counter.  leaseOne, before or after it, changes the retries of no
\* record and returns the record with the retries it had.
C24_ExpiryConsumesNoAttempt ==
    /\ \A w \in {releaseStaleLeases(W0)} :
           /\ Len(w.jobs) = Len(jobs)
           /\ w.dlq = dlq
           /\ w.metrics = metrics
           /\ w.inFlight = inFlight
           /\ \A i \in JobIx :
                  w.jobs[i] = IF Expired(jobs[i])
                              THEN [jobs[i] EXCEPT !.status = "pending",
                                                   !.leased_at = NULL,
                                                   !.updated_at = now]
                              ELSE jobs[i]
    /\ \A w \in LeaseWorlds :
           \A r \in {leaseOne(w)} :
               /\ Len(r.w.jobs) = Len(w.jobs)
               /\ \A i \in 1..Len(w.jobs) :
                      /\ r.w.jobs[i].retries = w.jobs[i].retries
                      /\ r.job.id = w.jobs[i].id => r.job.retries = w.jobs[i].retries

\* A job that failed once was executed a second time by a worker that was
\* killed; its lease expired and it is pending again, with the one retry
\* and the error message it had.
C24_Witness ==
    \E i \in JobIx :
        /\ jobs[i].status = "pending"
        /\ jobs[i].leased_at = NULL
        /\ jobs[i].retries = 1
        /\ jobs[i].error_message # NullStr
        /\ hist.runs[jobs[i].id] = 2
        /\ jobs[i].updated_at > jobs[i].created_at + LEASE_TIMEOUT_SEC
        /\ crashes > 0

\* The worlds after the catch block that the worker would run next, when it
\* is about to run one.
CatchWorlds ==
    IF workerUp /\ mq # <<>> /\ Head(mq).type = "catch"
    THEN {RunReaction(W0)}
    ELSE {}

\* C25: the catch block of a failed execution changes no record's
\* created_at, and when it has re-queued the job (retry) the next claim,
\* before or after the release of stale leases, returns a record that is not
\* newer than the job: no pending job with a later created_at is leased
\* before it.
C25_RetryKeepsPlace ==
    \A w \in CatchWorlds :
        /\ Len(w.jobs) = Len(jobs)
        /\ \A i \in JobIx :
               /\ w.jobs[i].created_at = jobs[i].created_at
               /\ (w.jobs[i].id = Head(mq).job.id /\ w.jobs[i].status = "pending") =>
                      /\ w.jobs[i].retries = jobs[i].retries + 1
                      /\ \A x \in {w, releaseStaleLeases(w)} :
                             \A r \in {leaseOne(x)} :
                                 /\ r.job.id # NULL
                                 /\ r.job.created_at <= w.jobs[i].created_at

\* A job has been re-queued by retry while a job submitted later, which has
\* never been executed, is pending; the next claim is about to be made.
C25_Witness ==
    /\ workerUp
    /\ mq # <<>>
    /\ Head(mq).type = "finally"
    /\ \E i, k \in JobIx :
           /\ jobs[i].status = "pending"
           /\ jobs[i].retries = 1
           /\ jobs[i].updated_at > jobs[i].created_at
           /\ jobs[k].status = "pending"
           /\ hist.runs[jobs[k].id] = 0
           /\ jobs[k].created_at > jobs[i].created_at

\* The worlds in which a scheduling pass that the worker could run now would
\* begin, for each of the ways I in which the API process or a failure of
\* jobs.json can fall inside it: on start-up, on the poll timer, and in the
\* .finally callback at the head of the queue.
PassWorlds(I) ==
    IF ~workerUp \/ mq = <<>>
    THEN {W(inj) : inj \in I}
    ELSE IF Head(mq).type = "finally"
    THEN {[W(inj) EXCEPT !.mq = Tail(@), !.inFlight = @ - 1] : inj \in I}
    ELSE {}

\* The worlds in which the loop of tryLeaseAndStart, entered in world w,
\* calls leaseOne.
RECURSIVE LeasePoints(_)
LeasePoints(w) ==
    IF w.inFlight < WORKER_CONCURRENCY
    THEN {w} \cup Then(leaseOne(w), LAMBDA r :
                      IF r.job.id = NULL
                      THEN {}
                      ELSE LeasePoints(runOneJob([r.w EXCEPT !.inFlight = @ + 1],
                                                 r.job)))
    ELSE {}

\* What leaseOne, called in world w, reads back after its update to running;
\* NoJob when there is no pending job or nothing to read back.
Reread(w) ==
    Then(getNextPendingJob(w), LAMBDA job :
        IF job.val.id = NULL
        THEN NoJob
        ELSE getJob(updateJob(job.w, job.val.id,
                        [status |-> "running", updated_at |-> now,
                         leased_at |-> now]),
                    job.val.id).val)

\* C26: when the record that leaseOne reads back after its update to running
\* is not running (the write did not persist, or a write of the API process
\* has overwritten it), leaseOne returns null: no execution is started,
\* inFlight stays, and the pass ends there.
C26_RereadNotRunningStopsPass ==
    \A p \in PassWorlds(LeaseInjections) :
        \A x \in LeasePoints(releaseStaleLeases(p)) :
            \A u \in {Reread(x)} :
                (u.id # NULL /\ u.status # "running") =>
                    \A r \in {leaseOne(x)} :
                        /\ r.job = NoJob
                        /\ ~r.w.threw
                        /\ r.w.inFlight = x.inFlight
                        /\ r.w.execs = x.execs
                        /\ r.w.mq = x.mq
                        /\ r.w.hist.runs = x.hist.runs
                        /\ leaseLoop(x) = r.w

\* The worker is about to make a pass inside which a createJob of the API
\* process falls so that its save overwrites the lease: leaseOne reads the
\* record back as pending and returns null, and the pass ends with a free
\* slot and two pending records.
C26_Witness ==
    \E p \in PassWorlds(LeaseInjections) :
        /\ p.inj.saveAt # 0
        /\ \E x \in LeasePoints(releaseStaleLeases(p)) :
               /\ Reread(x).id # NULL
               /\ Reread(x).status = "pending"
               /\ leaseOne(x).job = NoJob
               /\ leaseLoop(x).inFlight < WORKER_CONCURRENCY
               /\ Len(leaseLoop(x).jobs) = 2
               /\ \A i \in 1..2 : leaseLoop(x).jobs[i].status = "pending"

\* No record of the world is pending.
NonePending(w) == \A i \in 1..Len(w.jobs) : w.jobs[i].status # "pending"

\* The worlds after each completion of an execution that could happen now:
\* the end of a sleep (success) and the catch block (failure).
CompletionWorlds ==
    (IF workerUp /\ mq = <<>> THEN SleepHandlers({NoInj}) ELSE {}) \cup CatchWorlds

\* C27: at the end of every scheduling pass, wherever the API process falls
\* in it, inFlight = WORKER_CONCURRENCY or no record is pending; every
\* completion of an execution, success or failure, leaves inFlight as it is
\* and queues the .finally callback, which runs before any timer and makes a
\* pass with the slot freed: if a record was pending the slot is taken again
\* at once.
C27_WorkConserving ==
    /\ \A p \in PassWorlds(Injections) :
           \A w \in {tryLeaseAndStart(p)} :
               w.inFlight = WORKER_CONCURRENCY \/ NonePending(w)
    /\ \A w \in CompletionWorlds :
           /\ w.mq # <<>>
           /\ w.mq[Len(w.mq)] = OnFinally
           /\ w.inFlight = inFlight
    /\ (workerUp /\ mq # <<>> /\ Head(mq).type = "finally") =>
           \A w \in {RunReaction(W0)} :
               /\ inFlight >= 1
               /\ ~NonePending(W0) => w.inFlight >= inFlight
               /\ w.inFlight = WORKER_CONCURRENCY \/ NonePending(w)

\* No record of the world is running with a lease older than LEASE_TIMEOUT.
NoneExpired(w) ==
    \A i \in 1..Len(w.jobs) :
        ~(/\ w.jobs[i].status = "running"
          /\ w.jobs[i].leased_at # NULL
          /\ now - w.jobs[i].leased_at > LEASE_TIMEOUT_SEC)

\* The worker's side of two worlds is the same, and so is what is outside it.
SameWorld(a, b) ==
    /\ Outside(a) = Outside(b)
    /\ a.inFlight = b.inFlight
    /\ a.execs = b.execs
    /\ a.mq = b.mq

\* C28: a call of tryLeaseAndStart made when no running record has an
\* expired lease and either no record is pending or inFlight =
\* WORKER_CONCURRENCY writes nothing and leaves the store, inFlight and the
\* executions as they are; and a call that follows another call at once does
\* the same, so no number of calls starts an extra execution.
C28_PassIsReentrant ==
    \A p \in PassWorlds({NoInj}) :
        /\ (NoneExpired(p) /\ (NonePending(p) \/ p.inFlight = WORKER_CONCURRENCY)) =>
               \A w \in {tryLeaseAndStart(p)} :
                   /\ SameWorld(w, p)
                   /\ w.log = <<>>
        /\ \A w \in {tryLeaseAndStart(p)} :
               \A v \in {tryLeaseAndStart(w)} :
                   /\ SameWorld(v, w)
                   /\ v.log = w.log

\* The poll timer can fire while every slot is taken, a record is pending
\* and no lease has expired.
C28_Witness ==
    /\ workerUp
    /\ mq = <<>>
    /\ inFlight = WORKER_CONCURRENCY
    /\ NoneExpired(W0)
    /\ \E i \in JobIx : jobs[i].status = "pending" /\ hist.runs[jobs[i].id] = 0

\* C29: between the load and the save of a createJob of the API process no
\* write of the worker reaches jobs.json, and the save changes no record and
\* no dead-letter record that is in the file: it only adds the new record, so
\* no transition the worker has persisted is undone.
C29_WritesDoNotOverwrite ==
    CanSave(W0) =>
        /\ api.snap = [jobs |-> jobs, dlq |-> dlq]
        /\ \A w \in {apiSave(W0)} :
               /\ Len(w.jobs) = Len(jobs) + 1
               /\ \A i \in JobIx : w.jobs[i] = jobs[i]
               /\ w.dlq = dlq

\* C30: every write of a handler that changes a record leaves the record
\* with updated_at the time of the write and not less than it was, the
\* error_message-only update before dead-lettering included; and created_at
\* <= updated_at on every record.
C30_UpdateAdvancesUpdatedAt ==
    /\ \A wr \in Writes :
           \A i \in 1..Len(wr[1].jobs) :
               wr[2].jobs[i] # wr[1].jobs[i] =>
                   /\ wr[2].jobs[i].updated_at = now
                   /\ wr[2].jobs[i].updated_at >= wr[1].jobs[i].updated_at
    /\ \A i \in JobIx : jobs[i].created_at <= jobs[i].updated_at

\* C31: every dead-letter record has the id, the payload and the tenant_id
\* of its job record and a non-empty last_error, which is the error_message
\* of the job record once that is failed; and a dead-letter record that is
\* in the file stays in it, at its place and as it is.
C31_DeadLetterRecordKept ==
    /\ [](\A k \in 1..Len(dlq) :
              /\ dlq[k].last_error \notin {NullStr, ""}
              /\ \A i \in JobIx :
                     jobs[i].id = dlq[k].job_id =>
                         /\ dlq[k].payload = jobs[i].payload
                         /\ dlq[k].tenant_id = jobs[i].tenant_id
                         /\ jobs[i].status = "failed" =>
                                jobs[i].error_message = dlq[k].last_error)
    /\ [][\A k \in 1..Len(dlq) : Len(dlq') >= k /\ dlq'[k] = dlq[k]]_vars

\* The record of the job is running and the worker process holds no
\* execution of it.
Orphaned(id) ==
    /\ \E i \in JobIx : jobs[i].id = id /\ jobs[i].status = "running"
    /\ NoExecution(id)

\* C32: a record that is running with no execution behind it, as a killed
\* worker leaves it, is pending again after every pass that finds its lease
\* expired, and is eventually done or failed; no record is running forever.
C32_OrphanRecovered ==
    /\ [](\A w \in {releaseStaleLeases(W0)} :
              \A i \in JobIx : Expired(jobs[i]) => w.jobs[i].status = "pending")
    /\ \A id \in JobIds :
           /\ [](Orphaned(id)
                    => <>(\E i \in JobIx : jobs[i].id = id /\ Terminal(jobs[i])))
           /\ []<>(\A i \in JobIx : jobs[i].id = id => jobs[i].status # "running")

C32_Witness ==
    /\ crashes = 1
    /\ \E i \in JobIx :
           /\ jobs[i].status = "done"
           /\ JSON_parse(jobs[i].payload).text.len = 1
           /\ hist.runs[jobs[i].id] = 2

\* No two records of the array carry the same idempotency key.
UniqueKeys(js) ==
    \A i, k \in 1..Len(js) :
        (i # k /\ js[i].idempotency_key # NullStr)
            => js[i].idempotency_key # js[k].idempotency_key

\* C33: no two job records carry the same non-null idempotency_key, in the
\* store as it is and after any POST /jobs of any tenant with any key, and
\* no write of the worker changes the idempotency_key of a record.
C33_KeysUnique ==
    /\ UniqueKeys(jobs)
    /\ \A payload \in ApiPayloads, rawKey \in KeyHeaders, h \in TenantHeaders :
           \A w \in {postJobs(W0, payload, getTenant(h), idempotencyKeyOf(rawKey))} :
               UniqueKeys(w.jobs)
    /\ \A w \in WorkerHandlers({NoInj}) :
           /\ Len(w.jobs) = Len(jobs)
           /\ \A k \in 1..Len(w.log), i \in JobIx :
                  w.log[k].jobs[i].idempotency_key = jobs[i].idempotency_key

C33_Witness ==
    /\ resp.status = 200
    /\ resp.req.route = "POST /jobs"
    /\ resp.req.key = "k1"
    /\ \E i \in JobIx :
           /\ jobs[i].idempotency_key = "k1"
           /\ jobs[i].status = "done"
           /\ resp.body.id = jobs[i].id
           /\ resp.body.status = "done"

\* C34: a POST /jobs answered 429 and one answered 200 with the stored
\* record of its key leave the job records, the dead letters, the rate-limit
\* timestamps and the counters as they were; one answered 201 adds one job
\* record, one timestamp to the list of its tenant and to no other list, and
\* one to jobs_submitted.
C34_OnlyCreationsConsumeBudget ==
    \A payload \in ApiPayloads, rawKey \in KeyHeaders, h \in TenantHeaders :
        \A w \in {postJobs(W0, payload, getTenant(h), idempotencyKeyOf(rawKey))} :
            /\ w.resp.status \in {200, 201, 429}
            /\ w.resp.status \in {200, 429} =>
                   /\ w.jobs = jobs
                   /\ w.dlq = dlq
                   /\ w.ratelimit = ratelimit
                   /\ w.metrics = metrics
            /\ w.resp.status = 201 =>
                   /\ Len(w.jobs) = Len(jobs) + 1
                   /\ w.ratelimit[getTenant(h)]
                          = Append(Recent(ratelimit[getTenant(h)]), nowSeconds)
                   /\ \A t \in Tenants \ {getTenant(h)} : w.ratelimit[t] = ratelimit[t]
                   /\ w.metrics = [metrics EXCEPT !.jobs_submitted = @ + 1]

C34_Witness ==
    /\ resp.status = 429
    /\ resp.req.route = "POST /jobs"
    /\ resp.req.key = "k1"
    /\ \E i \in JobIx : jobs[i].idempotency_key = "k1"
    /\ \E t \in Tenants :
           /\ Len(Recent(ratelimit[t])) = MAX_NEW_JOBS_PER_MINUTE
           /\ Cardinality({i \in JobIx : jobs[i].tenant_id = t})
                  = MAX_NEW_JOBS_PER_MINUTE
    /\ metrics.jobs_submitted = Len(jobs)

\* The executions of the job that are in flight in the worker process: those
\* asleep in processJob and those whose catch block is still to run.
InFlightOf(id) ==
    Cardinality({e \in execs : e.job.id = id})
    + Cardinality({k \in 1..Len(mq) : mq[k].type = "catch" /\ mq[k].job.id = id})

\* C35: at no time are two executions of the same job in flight in the
\* worker process.
C35_OneExecutionPerJob == \A id \in JobIds : InFlightOf(id) <= 1

\* What GET /jobs, GET /dlq and GET /metrics show of a jobs.json: a record is
\* failed exactly when it has a dead-letter record, and the number of failed
\* records (countByStatus) is the number of dead-letter records (getDlqCount).
FailedIffDeadLettered(js, dl) ==
    /\ \A i \in 1..Len(js) :
           js[i].status = "failed" <=> \E k \in 1..Len(dl) : dl[k].job_id = js[i].id
    /\ Cardinality({i \in 1..Len(js) : js[i].status = "failed"}) = Len(dl)

\* C36: in the file as it is between two handlers and after a kill, and as
\* it is after each write of every handler the worker could run, a record is
\* failed if and only if it has a dead-letter record, and the failed records
\* are as many as the dead-letter records.
C36_FailedIffDeadLettered ==
    /\ FailedIffDeadLettered(jobs, dlq)
    /\ \A w \in WorkerHandlers({NoInj}) :
           \A k \in 1..Len(w.log) :
               FailedIffDeadLettered(w.log[k].jobs, w.log[k].dlq)

\* jobs.json cannot be read from some call of the store on, in the handler
\* that runs now.
ReadFailures == {inj \in IoInjections : inj.failKind = "read"}

\* Every job record and every dead-letter record of the file is in out.
KeepsRecords(out) ==
    /\ \A i \in JobIx : \E k \in 1..Len(out.jobs) : out.jobs[k].id = jobs[i].id
    /\ \A i \in 1..Len(dlq) : \E k \in 1..Len(out.dlq) : out.dlq[k].id = dlq[i].id

\* C37: whatever handler the worker runs and from whichever of its calls of
\* the store on jobs.json cannot be read, the file after each of the
\* handler's writes holds every job record and every dead-letter record it
\* held before the handler.
C37_FailedReadLosesNothing ==
    \A w \in WorkerHandlers(ReadFailures) :
        \A k \in 1..Len(w.log) : KeepsRecords(w.log[k])

RECURSIVE SumRetries(_)
SumRetries(js) == IF js = <<>> THEN 0 ELSE Head(js).retries + SumRetries(Tail(js))

\* C38: whenever the API process is not inside a request, jobs_submitted is
\* the number of job records created, jobs_done the number of records that
\* are done, jobs_failed the number of dead-letter records and retries the
\* number of re-queues after a failure, which is the sum of the records'
\* retries.
C38_CountersMatchStore ==
    (api.pc = "idle" /\ mq = <<>>) =>
        /\ metrics.jobs_submitted = Len(hist.made)
        /\ metrics.jobs_done = Cardinality({i \in JobIx : jobs[i].status = "done"})
        /\ metrics.jobs_failed = Len(dlq)
        /\ metrics.retries = SumRetries(jobs)

\* C39 as stated: whatever a tenant submits, with whatever key, a job record
\* in the response to its POST /jobs has the tenant_id of that tenant.
C39_ResponseOfOwnTenant ==
    \A payload \in ApiPayloads, rawKey \in KeyHeaders, h \in TenantHeaders :
        \A w \in {postJobs(W0, payload, getTenant(h), idempotencyKeyOf(rawKey))} :
            w.resp.status \in {200, 201} => w.resp.body.tenant_id = getTenant(h)

\* C39: a job record in the response to a POST /jobs is either the new
\* record, with the tenant_id of the submitting tenant, the request having no
\* key or a key that no record carries, or the first record that carries the
\* key of the request, whichever tenant created it.
C39_ResponseOfOwnTenantOrOfKey ==
    \A payload \in ApiPayloads, rawKey \in KeyHeaders, h \in TenantHeaders :
        \A w \in {postJobs(W0, payload, getTenant(h), idempotencyKeyOf(rawKey))} :
            /\ w.resp.status = 201 =>
                   /\ w.resp.body.tenant_id = getTenant(h)
                   /\ idempotencyKeyOf(rawKey) \notin StoredKeys
                   /\ \A i \in JobIx : w.resp.body.id # jobs[i].id
            /\ w.resp.status = 200 =>
                   /\ idempotencyKeyOf(rawKey) \in StoredKeys
                   /\ \E i \in JobIx :
                          /\ jobs[i].idempotency_key = idempotencyKeyOf(rawKey)
                          /\ \A k \in 1..(i - 1) :
                                 jobs[k].idempotency_key # idempotencyKeyOf(rawKey)
                          /\ w.resp.body = rowToJob(jobs[i])

\* The last response is the stored record of a key, created by a tenant
\* that is over its rate limit now and so was when the response was sent:
\* the request came from another tenant.
C39_Witness ==
    /\ resp.status = 200
    /\ resp.req.route = "POST /jobs"
    /\ resp.req.key = "k1"
    /\ Len(Recent(ratelimit[resp.body.tenant_id])) = MAX_NEW_JOBS_PER_MINUTE

====
